---- MODULE Spec2Model ----
(***************************************************************************)
(* Model of the tax/position reconciliation engine of ir-app               *)
(* (services.py over the repository layer of database.py).                 *)
(*                                                                         *)
(* Money is counted in centavos.  Python floats are modelled by exact      *)
(* rationals <<numerator, denominator>> (denominator > 0, lowest terms),   *)
(* so that a proration or an average is the real number the expression     *)
(* denotes.  A date is a pair <<month, day>>, months numbered from 1 on;   *)
(* MesDe gives the month key of a date as strftime("%Y-%m") does, and      *)
(* dates are ordered as their ISO text is.  Rows returned by               *)
(* "ORDER BY date" are taken in (date, id) order, the order SQLite yields  *)
(* for ties.                                                               *)
(***************************************************************************)
EXTENDS Integers, Sequences, FiniteSets, TLC

(***************************************************************************)
(* Exact rational arithmetic                                               *)
(***************************************************************************)
Abs(x) == IF x < 0 THEN -x ELSE x

RECURSIVE GCD(_, _)
GCD(a, b) == IF b = 0 THEN a ELSE GCD(b, a % b)

Q(n, d) ==
    LET g == GCD(Abs(n), Abs(d))
        s == IF d < 0 THEN -1 ELSE 1
    IN  <<(s * n) \div g, (s * d) \div g>>

QInt(n) == <<n, 1>>

QZero == <<0, 1>>

\* Sums and comparisons go through the least common denominator, products
\* cancel crosswise first, so that intermediate values stay small.
QAdd(a, b) ==
    LET g == GCD(a[2], b[2])
    IN  Q(a[1] * (b[2] \div g) + b[1] * (a[2] \div g), (a[2] \div g) * b[2])

QSub(a, b) == QAdd(a, <<-b[1], b[2]>>)

QMul(a, b) ==
    LET g1 == GCD(Abs(a[1]), b[2])
        g2 == GCD(Abs(b[1]), a[2])
    IN  Q((a[1] \div g1) * (b[1] \div g2), (a[2] \div g2) * (b[2] \div g1))

QDiv(a, b) == QMul(a, IF b[1] < 0 THEN <<-b[2], -b[1]>> ELSE <<b[2], b[1]>>)

QLt(a, b) ==
    LET g == GCD(a[2], b[2])
    IN  a[1] * (b[2] \div g) < b[1] * (a[2] \div g)

QLe(a, b) ==
    LET g == GCD(a[2], b[2])
    IN  a[1] * (b[2] \div g) <= b[1] * (a[2] \div g)

QMin(a, b) == IF QLe(a, b) THEN a ELSE b

QMax(a, b) == IF QLe(a, b) THEN b ELSE a

QAbs(a) == <<Abs(a[1]), a[2]>>

(***************************************************************************)
(* Bounds and input domains                                                *)
(***************************************************************************)
MaxOps == 2

MaxOpsFIFO == 3

MaxOpsMensal == 3

MaxLote == 2

MaxOpsDia == 3

\* Bounds of the authentication specification: rows of the table tokens,
\* advances of the clock, rows of the table operacoes.
MaxTokens == 2

MaxAvancos == 1

MaxOpsAuth == 4

\* Bounds of the step-by-step specifications: rows of the table operacoes
\* when the calls of two users interleave, and when those of one user do.
MaxOpsUsuarios == 3

MaxOpsSessoes == 2

\* Bound of the account specification: rows of the table tokens.
MaxTokensConta == 2

Usuarios == {1, 2}

\* The tickers of the model, in the order ORDER BY ticker gives.
TickersOrdenados == <<"PETR4", "VALE3">>

Tickers == {TickersOrdenados[i] : i \in DOMAIN TickersOrdenados}

Lados == {"buy", "sell"}

(***************************************************************************)
(* Dates                                                                   *)
(***************************************************************************)
\* op_date.strftime("%Y-%m"): the month key of a date.
MesDe(d) == d[1]

\* The order of two dates.
DataMenor(a, b) == a[1] < b[1] \/ (a[1] = b[1] /\ a[2] < b[2])

(***************************************************************************)
(* State                                                                   *)
(***************************************************************************)
VARIABLES
    operacoes,            \* table operacoes: set of rows
    seq_operacoes,        \* AUTOINCREMENT counter of table operacoes
    carteira_atual,       \* table carteira_atual: set of rows, UNIQUE(ticker, usuario_id)
    resultados_mensais,   \* table resultados_mensais: set of rows
    operacoes_fechadas,   \* table operacoes_fechadas: sequence of rows in insertion order
    agregacao,            \* where the last Monthly Tax Aggregator run stopped, with its locals
    filas,                \* the pending queues left by the last Lot Matcher run, per ticker
    retorno,              \* outcome of the last call: caller, function, returned value, exception
    tokens,               \* table tokens: set of rows, UNIQUE(token)
    relogio,              \* time.time() in seconds, and how often it has advanced
    bearer,               \* the token the last authentication call was given
    chamadas,             \* the calls that run step by step: position and locals of each
    usuarios              \* table usuarios: the row of each user id

vars == <<operacoes, seq_operacoes, carteira_atual, resultados_mensais,
          operacoes_fechadas, agregacao, filas, retorno, tokens, relogio, bearer,
          chamadas, usuarios>>

(***************************************************************************)
(* Generic helpers                                                         *)
(***************************************************************************)
RECURSIVE SeqSum(_)
SeqSum(s) == IF s = <<>> THEN 0 ELSE Head(s) + SeqSum(Tail(s))

RECURSIVE SeqQSum(_)
SeqQSum(s) == IF s = <<>> THEN QZero ELSE QAdd(Head(s), SeqQSum(Tail(s)))

Range(s) == {s[i] : i \in DOMAIN s}

\* The (date, id) key order of two rows.
Antes(a, b) == DataMenor(a.date, b.date) \/ (a.date = b.date /\ a.id < b.id)

\* A set of rows as the sequence sorted by (date, id).
RECURSIVE OrdenarPorDataId(_)
OrdenarPorDataId(S) ==
    IF S = {} THEN <<>>
    ELSE LET m == CHOOSE x \in S : \A y \in S \ {x} : Antes(x, y)
         IN  <<m>> \o OrdenarPorDataId(S \ {m})

\* A set of dates as the ascending sequence.
RECURSIVE OrdenarDatas(_)
OrdenarDatas(S) ==
    IF S = {} THEN <<>>
    ELSE LET m == CHOOSE x \in S : \A y \in S \ {x} : DataMenor(x, y)
         IN  <<m>> \o OrdenarDatas(S \ {m})

(***************************************************************************)
(* Repository reads (database.py); `tabela` is the table as the call finds *)
(* it                                                                      *)
(***************************************************************************)
\* The SELECT without its WHERE clause: the rows of every user.
obter_todas_operacoes_sem_filtro(tabela, usuario_id) ==
    OrdenarPorDataId(tabela)

\* SELECT ... FROM operacoes WHERE usuario_id = ? ORDER BY date
obter_todas_operacoes(tabela, usuario_id) ==
    OrdenarPorDataId({o \in tabela : o.usuario_id = usuario_id})

\* The SELECT ordered by id alone: the rows in insertion order.
obter_operacoes_por_id(tabela, usuario_id) ==
    LET RECURSIVE PorId(_)
        PorId(S) ==
            IF S = {} THEN <<>>
            ELSE LET m == CHOOSE x \in S : \A y \in S : x.id <= y.id
                 IN  <<m>> \o PorId(S \ {m})
    IN  PorId({o \in tabela : o.usuario_id = usuario_id})

\* SELECT * FROM operacoes WHERE usuario_id = ? ORDER BY date, id
obter_operacoes_para_calculo_fechadas(tabela, usuario_id) ==
    OrdenarPorDataId({o \in tabela : o.usuario_id = usuario_id})

\* SELECT * FROM carteira_atual WHERE usuario_id = ? ORDER BY ticker
obter_carteira_atual(tabela, usuario_id) ==
    LET linhas(t) == {c \in tabela : c.usuario_id = usuario_id /\ c.ticker = t}
        RECURSIVE PorTicker(_)
        PorTicker(ts) ==
            IF ts = <<>> THEN <<>>
            ELSE (IF linhas(Head(ts)) = {} THEN <<>> ELSE <<CHOOSE c \in linhas(Head(ts)) : TRUE>>)
                 \o PorTicker(Tail(ts))
    IN  PorTicker(TickersOrdenados)

\* SELECT * FROM resultados_mensais WHERE usuario_id = ? ORDER BY mes
obter_resultados_mensais(tabela, usuario_id) ==
    LET RECURSIVE PorMes(_)
        PorMes(S) ==
            IF S = {} THEN <<>>
            ELSE LET m == CHOOSE x \in S : \A y \in S : x.mes <= y.mes
                 IN  <<m>> \o PorMes(S \ {m})
    IN  PorMes({r \in tabela : r.usuario_id = usuario_id})

(***************************************************************************)
(* Lot Matcher (services.py, calcular_operacoes_fechadas)                  *)
(***************************************************************************)
Min(a, b) == IF a <= b THEN a ELSE b

\* The comparison on the month key of the dates instead of the dates.
MesmaDataPorMes(op_abertura, op_fechamento) ==
    MesDe(op_abertura.date) = MesDe(op_fechamento.date)

\* "day_trade": op_abertura["date"] == op_fechamento["date"]
MesmaData(op_abertura, op_fechamento) ==
    op_abertura.date = op_fechamento.date

\* _criar_operacao_fechada_detalhada: op_abertura is the pending fragment as
\* it stands in its queue, op_fechamento the transaction being processed.
CriarOperacaoFechadaDetalhada(op_abertura, op_fechamento, quantidade_fechada, tipo_fechamento) ==
    LET taxas_abertura ==
            IF op_abertura.quantity > 0
            THEN QMul(Q(op_abertura.fees, op_abertura.quantity), QInt(quantidade_fechada))
            ELSE QZero
        taxas_fechamento ==
            IF op_fechamento.quantity > 0
            THEN QMul(Q(op_fechamento.fees, op_fechamento.quantity), QInt(quantidade_fechada))
            ELSE QZero
        valor_total_abertura == op_abertura.price * quantidade_fechada
        valor_total_fechamento == op_fechamento.price * quantidade_fechada
        longa == tipo_fechamento = "compra_fechada_com_venda"
        resultado_bruto ==
            IF longa THEN valor_total_fechamento - valor_total_abertura
                     ELSE valor_total_abertura - valor_total_fechamento
        resultado_liquido ==
            QSub(QSub(QInt(resultado_bruto), taxas_abertura), taxas_fechamento)
        base ==
            IF longa THEN QAdd(QInt(valor_total_abertura), taxas_abertura)
                     ELSE QAdd(QInt(valor_total_fechamento), taxas_fechamento)
        percentual_lucro ==
            IF base # QZero THEN QMul(QDiv(resultado_liquido, base), QInt(100)) ELSE QZero
    IN  [ticker                 |-> op_abertura.ticker,
         data_abertura          |-> op_abertura.date,
         data_fechamento        |-> op_fechamento.date,
         quantidade             |-> quantidade_fechada,
         valor_compra           |-> IF longa THEN valor_total_abertura ELSE valor_total_fechamento,
         valor_venda            |-> IF longa THEN valor_total_fechamento ELSE valor_total_abertura,
         resultado              |-> resultado_liquido,
         percentual_lucro       |-> percentual_lucro,
         day_trade              |-> MesmaData(op_abertura, op_fechamento),
         id_operacao_abertura   |-> op_abertura.id,
         id_operacao_fechamento |-> op_fechamento.id,
         taxas_total            |-> QAdd(taxas_abertura, taxas_fechamento)]

\* The pending fragment after qtd_fechar of it was matched:
\* pendente["quantity"] -= qtd_fechar (its fees are left as they were).
ConsumirPendente(pendente, qtd_fechar) ==
    [pendente EXCEPT !.quantity = @ - qtd_fechar]

\* The while loop that closes op_atual against the head of a pending queue.
RECURSIVE FecharComPendentes(_, _, _, _)
FecharComPendentes(op_atual, quantidade_atual, pendentes, tipo_fechamento) ==
    IF quantidade_atual > 0 /\ pendentes # <<>>
    THEN LET pendente   == Head(pendentes)
             qtd_fechar == Min(quantidade_atual, pendente.quantity)
             op_fechada == CriarOperacaoFechadaDetalhada(pendente, op_atual, qtd_fechar,
                                                         tipo_fechamento)
             consumida  == ConsumirPendente(pendente, qtd_fechar)
             fila       == IF consumida.quantity = 0
                           THEN Tail(pendentes)
                           ELSE <<consumida>> \o Tail(pendentes)
             resto      == FecharComPendentes(op_atual, quantidade_atual - qtd_fechar,
                                              fila, tipo_fechamento)
         IN  [fechadas         |-> <<op_fechada>> \o resto.fechadas,
              quantidade_atual |-> resto.quantidade_atual,
              pendentes        |-> resto.pendentes]
    ELSE [fechadas |-> <<>>, quantidade_atual |-> quantidade_atual, pendentes |-> pendentes]

\* The copy without the assignment to "quantity": the unmatched
\* remainder is queued with the whole quantity of the transaction.
OpAtualRestanteInteira(op_atual, quantidade_atual) ==
    op_atual

\* op_atual_restante = op_atual.copy(); op_atual_restante["quantity"] = quantidade_atual
OpAtualRestante(op_atual, quantidade_atual) ==
    [op_atual EXCEPT !.quantity = quantidade_atual]

\* The iteration without the test "if quantidade_atual > 0": what is left
\* of op_atual is queued even when nothing is left.
ProcessarOpAtualSemTeste(st, op_atual) ==
    IF op_atual.operation = "buy"
    THEN LET r == FecharComPendentes(op_atual, op_atual.quantity, st.vendas_pendentes,
                                     "venda_descoberta_fechada_com_compra")
         IN  [fechadas          |-> st.fechadas \o r.fechadas,
              vendas_pendentes  |-> r.pendentes,
              compras_pendentes |->
                  Append(st.compras_pendentes, OpAtualRestante(op_atual, r.quantidade_atual))]
    ELSE LET r == FecharComPendentes(op_atual, op_atual.quantity, st.compras_pendentes,
                                     "compra_fechada_com_venda")
         IN  [fechadas          |-> st.fechadas \o r.fechadas,
              compras_pendentes |-> r.pendentes,
              vendas_pendentes  |->
                  Append(st.vendas_pendentes, OpAtualRestante(op_atual, r.quantidade_atual))]

\* One iteration of "for op_atual in ops_ticker" on the matcher state
\* [fechadas, compras_pendentes, vendas_pendentes].
ProcessarOpAtual(st, op_atual) ==
    IF op_atual.operation = "buy"
    THEN LET r == FecharComPendentes(op_atual, op_atual.quantity, st.vendas_pendentes,
                                     "venda_descoberta_fechada_com_compra")
         IN  [fechadas          |-> st.fechadas \o r.fechadas,
              vendas_pendentes  |-> r.pendentes,
              compras_pendentes |->
                  IF r.quantidade_atual > 0
                  THEN Append(st.compras_pendentes, OpAtualRestante(op_atual, r.quantidade_atual))
                  ELSE st.compras_pendentes]
    ELSE IF op_atual.operation = "sell"
    THEN LET r == FecharComPendentes(op_atual, op_atual.quantity, st.compras_pendentes,
                                     "compra_fechada_com_venda")
         IN  [fechadas          |-> st.fechadas \o r.fechadas,
              compras_pendentes |-> r.pendentes,
              vendas_pendentes  |->
                  IF r.quantidade_atual > 0
                  THEN Append(st.vendas_pendentes, OpAtualRestante(op_atual, r.quantidade_atual))
                  ELSE st.vendas_pendentes]
    ELSE st

RECURSIVE ProcessarOpsTicker(_, _)
ProcessarOpsTicker(st, ops_ticker) ==
    IF ops_ticker = <<>> THEN st
    ELSE ProcessarOpsTicker(ProcessarOpAtual(st, Head(ops_ticker)), Tail(ops_ticker))

\* The matcher's pass over one ticker of a (date, id)-sorted list of rows.
CasarTicker(ops, ticker) ==
    ProcessarOpsTicker(
        [fechadas |-> <<>>, compras_pendentes |-> <<>>, vendas_pendentes |-> <<>>],
        SelectSeq(ops, LAMBDA o : o.ticker = ticker))

\* operacoes_por_ticker.items(): the tickers in order of first appearance.
RECURSIVE TickersEmOrdem(_, _)
TickersEmOrdem(ops, vistos) ==
    IF ops = <<>> THEN <<>>
    ELSE IF Head(ops).ticker \in vistos
         THEN TickersEmOrdem(Tail(ops), vistos)
         ELSE <<Head(ops).ticker>> \o TickersEmOrdem(Tail(ops), vistos \cup {Head(ops).ticker})

RECURSIVE FechadasDosTickers(_, _)
FechadasDosTickers(ops, tickers) ==
    IF tickers = <<>> THEN <<>>
    ELSE CasarTicker(ops, Head(tickers)).fechadas \o FechadasDosTickers(ops, Tail(tickers))

\* operacoes_fechadas_para_salvar of a run over the user's rows.
OperacoesFechadasParaSalvar(tabela, usuario_id) ==
    LET ops == obter_operacoes_para_calculo_fechadas(tabela, usuario_id)
    IN  FechadasDosTickers(ops, TickersEmOrdem(ops, {}))

\* The queues each ticker's pass ends with.
FilasFinais(tabela, usuario_id) ==
    LET ops == obter_operacoes_para_calculo_fechadas(tabela, usuario_id)
    IN  [t \in Tickers |->
            [compras_pendentes |-> CasarTicker(ops, t).compras_pendentes,
             vendas_pendentes  |-> CasarTicker(ops, t).vendas_pendentes]]

\* salvar_operacao_fechada: the row INSERTed into operacoes_fechadas.
LinhaOperacaoFechada(op_fechada, usuario_id) ==
    [data_abertura    |-> op_fechada.data_abertura,
     data_fechamento  |-> op_fechada.data_fechamento,
     ticker           |-> op_fechada.ticker,
     quantidade       |-> op_fechada.quantidade,
     valor_compra     |-> op_fechada.valor_compra,
     valor_venda      |-> op_fechada.valor_venda,
     resultado        |-> op_fechada.resultado,
     percentual_lucro |-> op_fechada.percentual_lucro,
     usuario_id       |-> usuario_id]

RECURSIVE LinhasOperacoesFechadas(_, _)
LinhasOperacoesFechadas(fechadas, usuario_id) ==
    IF fechadas = <<>> THEN <<>>
    ELSE <<LinhaOperacaoFechada(Head(fechadas), usuario_id)>>
         \o LinhasOperacoesFechadas(Tail(fechadas), usuario_id)

\* limpar_operacoes_fechadas_usuario: DELETE FROM operacoes_fechadas WHERE usuario_id = ?
LimparOperacoesFechadasUsuario(tabela, usuario_id) ==
    SelectSeq(tabela, LAMBDA f : f.usuario_id # usuario_id)

(***************************************************************************)
(* Portfolio Rebuilder (services.py, recalcular_carteira)                  *)
(***************************************************************************)
\* carteira_temp[ticker] of a ticker not seen yet (the defaultdict's default).
EntradaInicial == [quantidade |-> 0, custo_total |-> QZero, preco_medio |-> QZero]

\* The cost of the sold shares taken as what the sale brought in.
CustoVendaPeloPreco(e, op) ==
    QInt(op.quantity * op.price)

\* custo_venda: the sold shares at the average price before the sell, nothing
\* when no share is held.
CustoVenda(e, op) ==
    IF e.quantidade > 0 THEN QMul(e.preco_medio, QInt(op.quantity)) ELSE QZero

\* The iteration without the two resets of custo_total at a quantity that is
\* not positive.
PassoCarteiraSemZerar(e, op) ==
    LET quantidade_op == op.quantity
        valor_op      == quantidade_op * op.price
        apos ==
            IF op.operation = "buy"
            THEN [e EXCEPT !.quantidade  = @ + quantidade_op,
                           !.custo_total = QAdd(@, QInt(valor_op + op.fees))]
            ELSE IF op.operation = "sell"
            THEN [e EXCEPT !.quantidade  = @ - quantidade_op,
                           !.custo_total = QSub(@, CustoVenda(e, op))]
            ELSE e
    IN  IF apos.quantidade > 0
        THEN [apos EXCEPT !.preco_medio = QDiv(apos.custo_total, QInt(apos.quantidade))]
        ELSE [apos EXCEPT !.preco_medio = QZero]

\* One iteration of "for op in operacoes" on the ticker's entry of carteira_temp.
PassoCarteira(e, op) ==
    LET quantidade_op == op.quantity
        valor_op      == quantidade_op * op.price
        apos ==
            IF op.operation = "buy"
            THEN [e EXCEPT !.quantidade  = @ + quantidade_op,
                           !.custo_total = QAdd(@, QInt(valor_op + op.fees))]
            ELSE IF op.operation = "sell"
            THEN LET custo_venda == CustoVenda(e, op)
                     restante    == e.quantidade - quantidade_op
                 IN  [e EXCEPT !.quantidade  = restante,
                               !.custo_total = IF restante <= 0 THEN QZero
                                               ELSE QSub(@, custo_venda)]
            ELSE e
    IN  IF apos.quantidade > 0
        THEN [apos EXCEPT !.preco_medio = QDiv(apos.custo_total, QInt(apos.quantidade))]
        ELSE [apos EXCEPT !.preco_medio = QZero, !.custo_total = QZero]

RECURSIVE DobrarCarteira(_, _)
DobrarCarteira(e, ops) ==
    IF ops = <<>> THEN e ELSE DobrarCarteira(PassoCarteira(e, Head(ops)), Tail(ops))

\* carteira_temp[ticker] after the fold over the user's rows.
CarteiraTemp(ops, ticker) ==
    DobrarCarteira(EntradaInicial, SelectSeq(ops, LAMBDA o : o.ticker = ticker))

\* INSERT OR REPLACE under UNIQUE(ticker), as the table was before the column
\* usuario_id joined the constraint: the row of the ticker is replaced
\* whoever owns it.
atualizar_carteira_por_ticker(tabela, ticker, quantidade, preco_medio, usuario_id) ==
    {c \in tabela : c.ticker # ticker}
    \cup {[ticker      |-> ticker,
           quantidade  |-> quantidade,
           custo_total |-> QMul(QInt(quantidade), preco_medio),
           preco_medio |-> preco_medio,
           usuario_id  |-> usuario_id]}

\* INSERT OR IGNORE: a row already stored for the ticker and user is kept.
atualizar_carteira_se_ausente(tabela, ticker, quantidade, preco_medio, usuario_id) ==
    IF \E c \in tabela : c.ticker = ticker /\ c.usuario_id = usuario_id
    THEN tabela
    ELSE tabela \cup {[ticker      |-> ticker,
                       quantidade  |-> quantidade,
                       custo_total |-> QMul(QInt(quantidade), preco_medio),
                       preco_medio |-> preco_medio,
                       usuario_id  |-> usuario_id]}

\* atualizar_carteira: INSERT OR REPLACE INTO carteira_atual under
\* UNIQUE(ticker, usuario_id); custo_total = quantidade * preco_medio.
atualizar_carteira(tabela, ticker, quantidade, preco_medio, usuario_id) ==
    {c \in tabela : ~(c.ticker = ticker /\ c.usuario_id = usuario_id)}
    \cup {[ticker      |-> ticker,
           quantidade  |-> quantidade,
           custo_total |-> QMul(QInt(quantidade), preco_medio),
           preco_medio |-> preco_medio,
           usuario_id  |-> usuario_id]}

\* "for ticker, dados in carteira_temp.items(): atualizar_carteira(...)":
\* only the tickers that occur in the user's rows are written.
RECURSIVE SalvarCarteiraTemp(_, _, _, _)
SalvarCarteiraTemp(tabela, ops, tickers, usuario_id) ==
    IF tickers = <<>> THEN tabela
    ELSE LET dados == CarteiraTemp(ops, Head(tickers))
         IN  SalvarCarteiraTemp(
                 atualizar_carteira(tabela, Head(tickers), dados.quantidade,
                                    dados.preco_medio, usuario_id),
                 ops, Tail(tickers), usuario_id)

\* recalcular_carteira: table carteira_atual after the rebuild for usuario_id,
\* given the table operacoes.
recalcular_carteira(carteira, tabela_operacoes, usuario_id) ==
    LET ops == obter_todas_operacoes(tabela_operacoes, usuario_id)
    IN  SalvarCarteiraTemp(carteira, ops, TickersEmOrdem(ops, {}), usuario_id)

(***************************************************************************)
(* Day-Trade Classifier and Monthly Tax Aggregator (services.py)           *)
(***************************************************************************)
\* The swing exemption limit, 20000.0 reais, in centavos.
LimiteIsencao == 2000000

\* The sum of F over the elements of a sequence, as a rational.
SomaQ(s, F(_)) == SeqQSum([i \in DOMAIN s |-> F(s[i])])

\* The classifier with "or" in place of "and": any trade of the ticker that
\* day makes it a day trade.
EhDayTradeCompraOuVenda(operacoes_dia, ticker) ==
    \E i \in DOMAIN operacoes_dia :
        operacoes_dia[i].ticker = ticker /\ operacoes_dia[i].quantity > 0

\* _eh_day_trade
EhDayTrade(operacoes_dia, ticker) ==
    LET compras == SeqSum([i \in DOMAIN operacoes_dia |->
                       IF operacoes_dia[i].ticker = ticker /\ operacoes_dia[i].operation = "buy"
                       THEN operacoes_dia[i].quantity ELSE 0])
        vendas  == SeqSum([i \in DOMAIN operacoes_dia |->
                       IF operacoes_dia[i].ticker = ticker /\ operacoes_dia[i].operation = "sell"
                       THEN operacoes_dia[i].quantity ELSE 0])
    IN  compras > 0 /\ vendas > 0

\* The cost a swing sell is given: quantity * preco_medio of the ticker's row
\* in the stored portfolio, nothing when the portfolio has no row for it.
CustoSwing(op, carteira) ==
    LET linhas == SelectSeq(carteira, LAMBDA c : c.ticker = op.ticker)
    IN  IF linhas # <<>> THEN QMul(QInt(op.quantity), Head(linhas).preco_medio) ELSE QZero

\* _calcular_resultado_dia: `carteira` is obter_carteira_atual(usuario_id).
CalcularResultadoDia(operacoes_dia, carteira) ==
    LET tickers_day_trade == {t \in Tickers : EhDayTrade(operacoes_dia, t)}
        valor(op)   == op.quantity * op.price
        dt(op)      == op.ticker \in tickers_day_trade
        compra(op)  == op.operation = "buy"
        swing_vendas == SomaQ(operacoes_dia, LAMBDA op :
                            IF ~dt(op) /\ ~compra(op) THEN QInt(valor(op) - op.fees) ELSE QZero)
        swing_custo  == SomaQ(operacoes_dia, LAMBDA op :
                            IF ~dt(op) /\ ~compra(op) THEN CustoSwing(op, carteira) ELSE QZero)
        day_custo    == SomaQ(operacoes_dia, LAMBDA op :
                            IF dt(op) /\ compra(op) THEN QInt(valor(op) + op.fees) ELSE QZero)
        day_vendas   == SomaQ(operacoes_dia, LAMBDA op :
                            IF dt(op) /\ ~compra(op) THEN QInt(valor(op) - op.fees) ELSE QZero)
        day_irrf     == SomaQ(operacoes_dia, LAMBDA op :
                            IF dt(op) /\ ~compra(op) THEN Q(valor(op), 100) ELSE QZero)
    IN  [swing |-> [vendas |-> swing_vendas, custo |-> swing_custo,
                    ganho_liquido |-> QSub(swing_vendas, swing_custo)],
         day   |-> [vendas |-> day_vendas, custo |-> day_custo,
                    ganho_liquido |-> QSub(day_vendas, day_custo), irrf |-> day_irrf]]

\* The loss compensation of one stream: the month's gain and the accumulated
\* loss after it.
CompensarPrejuizo(prejuizo_acumulado, ganho_liquido) ==
    IF QLt(QZero, prejuizo_acumulado) /\ QLt(QZero, ganho_liquido)
    THEN LET compensacao == QMin(prejuizo_acumulado, ganho_liquido)
         IN  [ganho_liquido      |-> QSub(ganho_liquido, compensacao),
              prejuizo_acumulado |-> QSub(prejuizo_acumulado, compensacao)]
    ELSE IF QLt(ganho_liquido, QZero)
    THEN [ganho_liquido      |-> QZero,
          prejuizo_acumulado |-> QAdd(prejuizo_acumulado, QAbs(ganho_liquido))]
    ELSE [ganho_liquido |-> ganho_liquido, prejuizo_acumulado |-> prejuizo_acumulado]

\* The due date of a DARF of month `mes`: the last business day of the
\* following month.
Vencimento(mes) == [mes |-> mes + 1, dia |-> "ultimo_dia_util"]

\* One iteration of "for mes_str, ops_mes in sorted(operacoes_por_mes.items())"
\* up to the call of salvar_resultado_mensal.  `mes` is the variable the
\* grouping loop left behind, which the DARF and the dict `resultado` use.
\* ir_pagar_swing, which the code computes and uses nowhere, is left out.
IteracaoMes(ops_mes, carteira, prejuizo_acumulado_swing, prejuizo_acumulado_day, mes_str, mes) ==
    LET dias == OrdenarDatas({ops_mes[i].date : i \in DOMAIN ops_mes})
        dia(d) == CalcularResultadoDia(SelectSeq(ops_mes, LAMBDA o : o.date = d), carteira)
        vendas_swing == SomaQ(dias, LAMBDA d : dia(d).swing.vendas)
        custo_swing  == SomaQ(dias, LAMBDA d : dia(d).swing.custo)
        ganho_swing  == SomaQ(dias, LAMBDA d : dia(d).swing.ganho_liquido)
        ganho_day    == SomaQ(dias, LAMBDA d : dia(d).day.ganho_liquido)
        irrf_day     == SomaQ(dias, LAMBDA d : dia(d).day.irrf)
        isento_swing == QLe(vendas_swing, QInt(LimiteIsencao))
        swing == CompensarPrejuizo(prejuizo_acumulado_swing, ganho_swing)
        day   == CompensarPrejuizo(prejuizo_acumulado_day, ganho_day)
        ir_devido_swing == IF isento_swing THEN QZero
                           ELSE QMul(swing.ganho_liquido, Q(15, 100))
        ir_devido_day   == QMax(QZero, QMul(day.ganho_liquido, Q(20, 100)))
        ir_pagar_day    == QMax(QZero, QSub(ir_devido_day, irrf_day))
        darf == IF QLt(QZero, ir_pagar_day)
                THEN <<[codigo |-> "6015", competencia |-> mes, valor |-> ir_pagar_day,
                        vencimento |-> Vencimento(mes)]>>
                ELSE <<>>
    IN  [mes_str         |-> mes_str,
         ir_devido_swing |-> ir_devido_swing,
         resultado       |->
            [mes                      |-> mes,
             vendas_swing             |-> vendas_swing,
             custo_swing              |-> custo_swing,
             ganho_liquido_swing      |-> swing.ganho_liquido,
             isento_swing             |-> isento_swing,
             ganho_liquido_day        |-> day.ganho_liquido,
             ir_devido_day            |-> ir_devido_day,
             irrf_day                 |-> irrf_day,
             ir_pagar_day             |-> ir_pagar_day,
             prejuizo_acumulado_swing |-> swing.prejuizo_acumulado,
             prejuizo_acumulado_day   |-> day.prejuizo_acumulado,
             darf                     |-> darf]]

\* recalcular_resultados: where the run stops.  With rows, the first month
\* in ascending order is computed and salvar_resultado_mensal(resultado) is
\* called without usuario_id, which raises TypeError before anything is
\* stored; without rows the loop is skipped and obter_todas_operacoes() is
\* called without usuario_id, which raises TypeError.
recalcular_resultados(tabela_operacoes, carteira, usuario_id) ==
    LET ops == obter_todas_operacoes(tabela_operacoes, usuario_id)
    IN  IF ops = <<>>
        THEN [usuario_id |-> usuario_id, linha |-> 546, excecao |-> "TypeError",
              iteracoes |-> <<>>]
        ELSE LET mes     == MesDe(ops[Len(ops)].date)
                 mes_str == MesDe(ops[1].date)
                 ops_mes == SelectSeq(ops, LAMBDA o : MesDe(o.date) = mes_str)
             IN  [usuario_id |-> usuario_id, linha |-> 541, excecao |-> "TypeError",
                  iteracoes |-> <<IteracaoMes(ops_mes,
                                              obter_carteira_atual(carteira, usuario_id),
                                              QZero, QZero, mes_str, mes)>>]

(***************************************************************************)
(* Repository writes and service calls                                     *)
(***************************************************************************)
\* inserir_operacao: the row INSERTed, its id drawn from the AUTOINCREMENT counter.
inserir_operacao(operacao, id, usuario_id) ==
    [id         |-> id,
     date       |-> operacao.date,
     ticker     |-> operacao.ticker,
     operation  |-> operacao.operation,
     quantity   |-> operacao.quantity,
     price      |-> operacao.price,
     fees       |-> operacao.fees,
     usuario_id |-> usuario_id]

\* The rows a list of operations is inserted as, ids counting on from `seq`.
LinhasDoLote(lote, seq, usuario_id) ==
    {inserir_operacao(lote[i], seq + i, usuario_id) : i \in DOMAIN lote}

Retorno(usuario_id, funcao, valor, excecao) ==
    [usuario_id |-> usuario_id, funcao |-> funcao, valor |-> valor, excecao |-> excecao]

\* What `agregacao` and `filas` hold after a call that runs neither the
\* aggregator nor the Lot Matcher.
AgregacaoNenhuma == [usuario_id |-> 0, linha |-> 0, excecao |-> "", iteracoes |-> <<>>]

FilasVazias == [t \in Tickers |-> [compras_pendentes |-> <<>>, vendas_pendentes |-> <<>>]]

FilasNenhumas == [usuario_id |-> 0, por_ticker |-> FilasVazias]

\* What `bearer` holds after a call of the service layer, which is handed the
\* caller's id and no token.
SemToken == [texto |-> "", sub |-> 0, iat |-> 0]

\* No statement of services.py or of the financial part of database.py reads
\* the clock or writes the table tokens.
AutenticacaoInalterada ==
    /\ bearer' = SemToken
    /\ UNCHANGED <<tokens, relogio>>

\* processar_operacoes: insert every operation, rebuild the portfolio, then
\* run the aggregator, whose exception ends the call.
ProcessarOperacoes(usuario_id, lote, limite) ==
    /\ Cardinality(operacoes) + Len(lote) <= limite
    /\ operacoes' = operacoes \cup LinhasDoLote(lote, seq_operacoes, usuario_id)
    /\ seq_operacoes' = seq_operacoes + Len(lote)
    /\ carteira_atual' = recalcular_carteira(carteira_atual, operacoes', usuario_id)
    /\ agregacao' = recalcular_resultados(operacoes', carteira_atual', usuario_id)
    /\ retorno' = Retorno(usuario_id, "processar_operacoes", <<>>, agregacao'.excecao)
    /\ filas' = FilasNenhumas
    /\ UNCHANGED <<resultados_mensais, operacoes_fechadas>>
    /\ AutenticacaoInalterada
    /\ UNCHANGED <<chamadas, usuarios>>

\* inserir_operacao_manual: as processar_operacoes for one operation.
InserirOperacaoManual(usuario_id, operacao, limite) ==
    /\ Cardinality(operacoes) < limite
    /\ operacoes' = operacoes \cup {inserir_operacao(operacao, seq_operacoes + 1, usuario_id)}
    /\ seq_operacoes' = seq_operacoes + 1
    /\ carteira_atual' = recalcular_carteira(carteira_atual, operacoes', usuario_id)
    /\ agregacao' = recalcular_resultados(operacoes', carteira_atual', usuario_id)
    /\ retorno' = Retorno(usuario_id, "inserir_operacao_manual", <<>>, agregacao'.excecao)
    /\ filas' = FilasNenhumas
    /\ UNCHANGED <<resultados_mensais, operacoes_fechadas>>
    /\ AutenticacaoInalterada
    /\ UNCHANGED <<chamadas, usuarios>>

\* A call that reads or fails without writing a table.
SoRetorna(usuario_id, funcao, valor, excecao) ==
    /\ retorno' = Retorno(usuario_id, funcao, valor, excecao)
    /\ agregacao' = AgregacaoNenhuma
    /\ filas' = FilasNenhumas
    /\ UNCHANGED <<operacoes, seq_operacoes, carteira_atual, resultados_mensais,
                   operacoes_fechadas>>
    /\ AutenticacaoInalterada
    /\ UNCHANGED <<chamadas, usuarios>>

\* deletar_operacao_service: services.py does not import remover_operacao,
\* so the call raises NameError before it touches the repository.
DeletarOperacaoService(usuario_id, operacao_id) ==
    SoRetorna(usuario_id, "deletar_operacao_service", <<>>, "NameError")

\* atualizar_item_carteira: the manual edit of one portfolio row.
AtualizarItemCarteira(usuario_id, dados) ==
    /\ carteira_atual' = atualizar_carteira(carteira_atual, dados.ticker, dados.quantidade,
                                            dados.preco_medio, usuario_id)
    /\ retorno' = Retorno(usuario_id, "atualizar_item_carteira", <<>>, "")
    /\ agregacao' = AgregacaoNenhuma
    /\ filas' = FilasNenhumas
    /\ UNCHANGED <<operacoes, seq_operacoes, resultados_mensais, operacoes_fechadas>>
    /\ AutenticacaoInalterada
    /\ UNCHANGED <<chamadas, usuarios>>

\* calcular_operacoes_fechadas: clear the user's stored closed positions, run
\* the Lot Matcher over the user's rows, store and return its closed positions.
CalcularOperacoesFechadas(usuario_id) ==
    LET fechadas == OperacoesFechadasParaSalvar(operacoes, usuario_id)
    IN  /\ operacoes_fechadas' =
               LimparOperacoesFechadasUsuario(operacoes_fechadas, usuario_id)
               \o LinhasOperacoesFechadas(fechadas, usuario_id)
        /\ filas' = [usuario_id |-> usuario_id, por_ticker |-> FilasFinais(operacoes, usuario_id)]
        /\ retorno' = Retorno(usuario_id, "calcular_operacoes_fechadas", fechadas, "")
        /\ agregacao' = AgregacaoNenhuma
        /\ UNCHANGED <<operacoes, seq_operacoes, carteira_atual, resultados_mensais>>
        /\ AutenticacaoInalterada
        /\ UNCHANGED <<chamadas, usuarios>>

\* listar_operacoes_service
ListarOperacoesService(usuario_id) ==
    SoRetorna(usuario_id, "listar_operacoes_service",
              obter_todas_operacoes(operacoes, usuario_id), "")

\* calcular_carteira_atual
CalcularCarteiraAtual(usuario_id) ==
    SoRetorna(usuario_id, "calcular_carteira_atual",
              obter_carteira_atual(carteira_atual, usuario_id), "")

\* calcular_resultados_mensais
CalcularResultadosMensais(usuario_id) ==
    SoRetorna(usuario_id, "calcular_resultados_mensais",
              obter_resultados_mensais(resultados_mensais, usuario_id), "")

\* The DARFs gerar_darfs builds from a list of stored monthly results.
DarfsDe(resultados) ==
    LET comDarf == SelectSeq(resultados, LAMBDA r : r.darf # <<>> /\ QLt(QZero, r.darf[1].valor))
    IN  [i \in DOMAIN comDarf |-> comDarf[i].darf[1]]

\* gerar_darfs
GerarDarfs(usuario_id) ==
    SoRetorna(usuario_id, "gerar_darfs",
              DarfsDe(obter_resultados_mensais(resultados_mensais, usuario_id)), "")

(***************************************************************************)
(* Tokens (auth.py) and the admin reset (database.py)                      *)
(***************************************************************************)
\* Seconds a token is valid for.
JWT_EXPIRATION == 86400

\* jwt.encode of the payload gerar_token builds: the string is determined by
\* the user and the second of issuance (the roles of a user do not change
\* here).
jwt_encode(usuario_id, agora) == [texto |-> "jwt", sub |-> usuario_id, iat |-> agora]

\* A string that is no JWT, and a JWT the system never issued.
TokenMalformado == [texto |-> "invalidtoken", sub |-> 0, iat |-> 0]

TokenNuncaEmitido == [texto |-> "jwt", sub |-> 1, iat |-> -1]

\* jwt.decode: a string that is no JWT of the system's key raises a
\* PyJWTError, a JWT whose exp has passed raises ExpiredSignatureError,
\* another yields its payload (here the one element of a sequence, empty
\* when an exception is raised).
jwt_decode(token, agora) ==
    IF token.texto # "jwt" THEN [excecao |-> "PyJWTError", payload |-> <<>>]
    ELSE IF token.iat + JWT_EXPIRATION <= agora
         THEN [excecao |-> "ExpiredSignatureError", payload |-> <<>>]
         ELSE [excecao |-> "",
               payload |-> <<[sub |-> token.sub, iat |-> token.iat,
                              exp |-> token.iat + JWT_EXPIRATION]>>]

\* gerar_token: INSERT INTO tokens; the column token is UNIQUE, so a string
\* already stored raises IntegrityError and nothing is inserted.
gerar_token(tabela, usuario_id, agora) ==
    LET token == jwt_encode(usuario_id, agora)
    IN  IF \E l \in tabela : l.token = token
        THEN [tabela |-> tabela, token |-> token, excecao |-> "IntegrityError"]
        ELSE [tabela |-> tabela \cup {[id |-> Cardinality(tabela) + 1,
                                       usuario_id |-> usuario_id,
                                       token |-> token,
                                       revogado |-> FALSE]},
              token |-> token, excecao |-> ""]

\* verificar_token without the test of the column revogado.
verificar_token_sem_revogado(tabela, token, agora) ==
    LET token_data == {l \in tabela : l.token = token}
        decodificado == jwt_decode(token, agora)
    IN  IF token_data = {} THEN [excecao |-> "TokenNotFoundError", payload |-> <<>>]
        ELSE IF decodificado.excecao = "ExpiredSignatureError"
             THEN [excecao |-> "TokenExpiredError", payload |-> <<>>]
        ELSE IF decodificado.excecao # ""
             THEN [excecao |-> "InvalidTokenError", payload |-> <<>>]
        ELSE decodificado

\* verificar_token: the row of the token is looked up first (none:
\* TokenNotFoundError; revoked: TokenRevokedError), then the string is
\* decoded.  On ExpiredSignatureError the UPDATE that would mark the row
\* revoked is guarded by `'id' in token_data`, which on a sqlite3.Row tests
\* the row's values and is false: the table is left as it was.
verificar_token(tabela, token, agora) ==
    LET token_data == {l \in tabela : l.token = token}
        decodificado == jwt_decode(token, agora)
    IN  IF token_data = {} THEN [excecao |-> "TokenNotFoundError", payload |-> <<>>]
        ELSE IF \E l \in token_data : l.revogado
             THEN [excecao |-> "TokenRevokedError", payload |-> <<>>]
        ELSE IF decodificado.excecao = "ExpiredSignatureError"
             THEN [excecao |-> "TokenExpiredError", payload |-> <<>>]
        ELSE IF decodificado.excecao # ""
             THEN [excecao |-> "InvalidTokenError", payload |-> <<>>]
        ELSE decodificado

\* UPDATE tokens SET revogado = 1 WHERE token = ?
revogar_token(tabela, token) ==
    {IF l.token = token THEN [l EXCEPT !.revogado = TRUE] ELSE l : l \in tabela}

\* UPDATE tokens SET revogado = 1 WHERE usuario_id = ?
revogar_todos_tokens_usuario(tabela, usuario_id) ==
    {IF l.usuario_id = usuario_id THEN [l EXCEPT !.revogado = TRUE] ELSE l : l \in tabela}

\* get_current_user: the error code of the 401 answer each exception of
\* verificar_token is turned into.
CodigoDeErro(excecao) ==
    CASE excecao = "TokenExpiredError"  -> "TOKEN_EXPIRED"
      [] excecao = "InvalidTokenError"  -> "TOKEN_INVALID"
      [] excecao = "TokenNotFoundError" -> "TOKEN_NOT_FOUND"
      [] excecao = "TokenRevokedError"  -> "TOKEN_REVOKED"
      [] excecao = ""                   -> ""
      [] OTHER                          -> "UNEXPECTED_TOKEN_VERIFICATION_ERROR"

\* A call of auth.py: it writes no financial table.
FinanceiroInalterado ==
    /\ agregacao' = AgregacaoNenhuma
    /\ filas' = FilasNenhumas
    /\ UNCHANGED <<operacoes, seq_operacoes, carteira_atual, resultados_mensais,
                   operacoes_fechadas>>

\* login: gerar_token for a user whose credentials were accepted.
GerarToken(usuario_id) ==
    LET r == gerar_token(tokens, usuario_id, relogio.agora)
    IN  /\ Cardinality(tokens) < MaxTokens
        /\ tokens' = r.tabela
        /\ bearer' = r.token
        /\ retorno' = Retorno(usuario_id, "gerar_token",
                              IF r.excecao = "" THEN <<r.token>> ELSE <<>>, r.excecao)
        /\ UNCHANGED relogio
        /\ FinanceiroInalterado
        /\ UNCHANGED <<chamadas, usuarios>>

\* verificar_token, as get_current_user calls it with the bearer token.
VerificarToken(token) ==
    LET r == verificar_token(tokens, token, relogio.agora)
    IN  /\ bearer' = token
        /\ retorno' = Retorno(0, "verificar_token", r.payload, r.excecao)
        /\ UNCHANGED <<tokens, relogio>>
        /\ FinanceiroInalterado
        /\ UNCHANGED <<chamadas, usuarios>>

\* logout: revogar_token, which tells whether a row was matched.
RevogarToken(token) ==
    /\ tokens' = revogar_token(tokens, token)
    /\ bearer' = token
    /\ retorno' = Retorno(0, "revogar_token",
                          <<[revogou |-> \E l \in tokens : l.token = token]>>, "")
    /\ UNCHANGED relogio
    /\ FinanceiroInalterado
    /\ UNCHANGED <<chamadas, usuarios>>

\* revogar_todos_tokens_usuario, also the UPDATE atualizar_usuario issues on
\* a change of password or a deactivation.
RevogarTodosTokensUsuario(usuario_id) ==
    /\ tokens' = revogar_todos_tokens_usuario(tokens, usuario_id)
    /\ bearer' = SemToken
    /\ retorno' = Retorno(usuario_id, "revogar_todos_tokens_usuario",
                          <<[revogados |-> Cardinality({l \in tokens :
                                                          l.usuario_id = usuario_id})]>>, "")
    /\ UNCHANGED relogio
    /\ FinanceiroInalterado
    /\ UNCHANGED <<chamadas, usuarios>>

\* The clock advances between two calls.
PassarTempo(segundos) ==
    /\ relogio.avancos < MaxAvancos
    /\ relogio' = [agora |-> relogio.agora + segundos, avancos |-> relogio.avancos + 1]
    /\ UNCHANGED <<operacoes, seq_operacoes, carteira_atual, resultados_mensais,
                   operacoes_fechadas, agregacao, filas, retorno, tokens, bearer,
                   chamadas, usuarios>>

\* limpar_banco_dados with a DELETE FROM tokens added.
LimparBancoDadosETokens ==
    /\ operacoes' = {}
    /\ resultados_mensais' = {}
    /\ carteira_atual' = {}
    /\ operacoes_fechadas' = <<>>
    /\ seq_operacoes' = 0
    /\ tokens' = {}
    /\ retorno' = Retorno(0, "limpar_banco_dados", <<>>, "")
    /\ agregacao' = AgregacaoNenhuma
    /\ filas' = FilasNenhumas
    /\ bearer' = SemToken
    /\ UNCHANGED <<relogio, chamadas, usuarios>>

\* limpar_banco_dados: DELETE FROM each of the four financial tables and
\* from sqlite_sequence for them, which restarts their AUTOINCREMENT ids.
LimparBancoDados ==
    /\ operacoes' = {}
    /\ resultados_mensais' = {}
    /\ carteira_atual' = {}
    /\ operacoes_fechadas' = <<>>
    /\ seq_operacoes' = 0
    /\ retorno' = Retorno(0, "limpar_banco_dados", <<>>, "")
    /\ agregacao' = AgregacaoNenhuma
    /\ filas' = FilasNenhumas
    /\ AutenticacaoInalterada
    /\ UNCHANGED <<chamadas, usuarios>>

(***************************************************************************)
(* Accounts (auth.py): credentials, updates of a user, login               *)
(***************************************************************************)
\* The rows of the table usuarios at the start: both users active, each
\* under a username of their own and with the password 1.
UsuariosIniciais ==
    [u \in Usuarios |-> [username |-> IF u = 1 THEN "ana" ELSE "bia",
                         senha    |-> 1,
                         ativo    |-> TRUE]]

\* verificar_credenciais without the test of the column ativo.
verificar_credenciais_sem_ativo(tabela, username, senha) ==
    LET achados == {u \in DOMAIN tabela : tabela[u].username = username}
    IN  IF achados = {} THEN <<>>
        ELSE LET u == CHOOSE x \in achados : TRUE
             IN  IF tabela[u].senha # senha THEN <<>> ELSE <<u>>

\* verificar_credenciais: the user of that username, if active and if the
\* hash of the password under the stored salt is the stored hash; hashes
\* under one salt are equal when the passwords are.
verificar_credenciais(tabela, username, senha) ==
    LET achados == {u \in DOMAIN tabela : tabela[u].username = username}
    IN  IF achados = {} THEN <<>>
        ELSE LET u == CHOOSE x \in achados : TRUE
             IN  IF ~tabela[u].ativo THEN <<>>
                 ELSE IF tabela[u].senha # senha THEN <<>>
                 ELSE <<u>>

\* atualizar_usuario: False for an unknown id; ValueError, before anything
\* is written, for a username another user has (the e-mail, checked the same
\* way, is left out); a new password and a deactivation each revoke every
\* token of the user within the transaction that updates the row.  A key
\* absent from `dados` is an empty sequence.
atualizar_usuario(tabela, tabela_tokens, usuario_id, dados) ==
    IF usuario_id \notin DOMAIN tabela
    THEN [usuarios |-> tabela, tokens |-> tabela_tokens, valor |-> FALSE, excecao |-> ""]
    ELSE IF /\ dados.username # <<>>
            /\ \E v \in DOMAIN tabela : v # usuario_id /\ tabela[v].username = dados.username[1]
    THEN [usuarios |-> tabela, tokens |-> tabela_tokens, valor |-> FALSE,
          excecao |-> "ValueError"]
    ELSE LET revoga == dados.senha # <<>> \/ (dados.ativo # <<>> /\ ~dados.ativo[1])
             linha  == [username |-> IF dados.username # <<>> THEN dados.username[1]
                                     ELSE tabela[usuario_id].username,
                        senha    |-> IF dados.senha # <<>> THEN dados.senha[1]
                                     ELSE tabela[usuario_id].senha,
                        ativo    |-> IF dados.ativo # <<>> THEN dados.ativo[1]
                                     ELSE tabela[usuario_id].ativo]
         IN  [usuarios |-> [tabela EXCEPT ![usuario_id] = linha],
              tokens   |-> IF revoga
                           THEN revogar_todos_tokens_usuario(tabela_tokens, usuario_id)
                           ELSE tabela_tokens,
              valor    |-> TRUE,
              excecao  |-> ""]

\* login: verificar_credenciais, answered 401 when it yields no user, then
\* gerar_token.
Login(username, senha, limite) ==
    LET user == verificar_credenciais(usuarios, username, senha)
        r    == gerar_token(tokens, user[1], relogio.agora)
    IN  /\ IF user = <<>>
           THEN /\ retorno' = Retorno(0, "login", <<>>, "HTTP 401")
                /\ bearer' = SemToken
                /\ UNCHANGED tokens
           ELSE /\ Cardinality(tokens) < limite
                /\ tokens' = r.tabela
                /\ bearer' = r.token
                /\ retorno' = Retorno(user[1], "login",
                                      IF r.excecao = "" THEN <<r.token>> ELSE <<>>, r.excecao)
        /\ UNCHANGED <<relogio, usuarios, chamadas>>
        /\ agregacao' = AgregacaoNenhuma
        /\ filas' = FilasNenhumas
        /\ UNCHANGED <<operacoes, seq_operacoes, carteira_atual, resultados_mensais,
                       operacoes_fechadas>>

\* atualizar_usuario, as the administrator's endpoint calls it.
AtualizarUsuario(usuario_id, dados) ==
    LET r == atualizar_usuario(usuarios, tokens, usuario_id, dados)
    IN  /\ usuarios' = r.usuarios
        /\ tokens' = r.tokens
        /\ bearer' = SemToken
        /\ retorno' = Retorno(usuario_id, "atualizar_usuario",
                              <<[atualizado |-> r.valor]>>, r.excecao)
        /\ UNCHANGED <<relogio, chamadas>>
        /\ agregacao' = AgregacaoNenhuma
        /\ filas' = FilasNenhumas
        /\ UNCHANGED <<operacoes, seq_operacoes, carteira_atual, resultados_mensais,
                       operacoes_fechadas>>

(***************************************************************************)
(* inserir_operacao_manual step by step                                    *)
(*                                                                         *)
(* Every repository function opens its own connection and commits before   *)
(* it returns, so one repository call is the unit in which calls that run  *)
(* at the same time interleave.                                            *)
(***************************************************************************)
\* The sessions that can have a call running.
Sessoes == {1, 2}

\* A session without a call; `feitas` are the operations it has submitted.
ChamadaLivre ==
    [pc |-> "livre", usuario_id |-> 0, operacao |-> <<>>, operacoes |-> <<>>,
     pendentes |-> <<>>, feitas |-> <<>>]

\* The rows still to be inserted by calls that have started.
PorInserir == Cardinality({c \in Sessoes : chamadas[c].pc = "inserir_operacao"})

\* Nothing but `chamadas` and what the step names changes.
SoMuda(c, chamada) == chamadas' = [chamadas EXCEPT ![c] = chamada]

\* A session calls inserir_operacao_manual(operacao, usuario_id).
IniciarChamada(c, usuario_id, operacao, limite) ==
    /\ chamadas[c].pc = "livre"
    /\ Cardinality(operacoes) + PorInserir < limite
    /\ SoMuda(c, [chamadas[c] EXCEPT !.pc = "inserir_operacao",
                                     !.usuario_id = usuario_id,
                                     !.operacao = <<operacao>>,
                                     !.operacoes = <<>>,
                                     !.pendentes = <<>>,
                                     !.feitas = Append(@, operacao)])
    /\ UNCHANGED <<operacoes, seq_operacoes, carteira_atual, resultados_mensais,
                   operacoes_fechadas, agregacao, filas, retorno, tokens, relogio, bearer, usuarios>>

\* inserir_operacao(operacao.model_dump(), usuario_id)
PassoInserirOperacao(c) ==
    /\ chamadas[c].pc = "inserir_operacao"
    /\ operacoes' = operacoes \cup {inserir_operacao(chamadas[c].operacao[1], seq_operacoes + 1,
                                                     chamadas[c].usuario_id)}
    /\ seq_operacoes' = seq_operacoes + 1
    /\ SoMuda(c, [chamadas[c] EXCEPT !.pc = "obter_todas_operacoes"])
    /\ UNCHANGED <<carteira_atual, resultados_mensais, operacoes_fechadas, agregacao,
                   filas, retorno, tokens, relogio, bearer, usuarios>>

\* recalcular_carteira: operacoes = obter_todas_operacoes(usuario_id), from
\* which carteira_temp is built without another read.
PassoObterOperacoes(c) ==
    LET lidas == obter_todas_operacoes(operacoes, chamadas[c].usuario_id)
    IN  /\ chamadas[c].pc = "obter_todas_operacoes"
        /\ SoMuda(c, [chamadas[c] EXCEPT !.pc = "atualizar_carteira",
                                         !.operacoes = lidas,
                                         !.pendentes = TickersEmOrdem(lidas, {})])
        /\ UNCHANGED <<operacoes, seq_operacoes, carteira_atual, resultados_mensais,
                       operacoes_fechadas, agregacao, filas, retorno, tokens, relogio,
                       bearer, usuarios>>

\* recalcular_carteira: one atualizar_carteira of the loop over carteira_temp.
PassoAtualizarCarteira(c) ==
    LET ticker == Head(chamadas[c].pendentes)
        dados  == CarteiraTemp(chamadas[c].operacoes, ticker)
        resto  == Tail(chamadas[c].pendentes)
    IN  /\ chamadas[c].pc = "atualizar_carteira"
        /\ carteira_atual' = atualizar_carteira(carteira_atual, ticker, dados.quantidade,
                                                dados.preco_medio, chamadas[c].usuario_id)
        /\ SoMuda(c, [chamadas[c] EXCEPT !.pendentes = resto,
                                         !.pc = IF resto = <<>> THEN "recalcular_resultados"
                                                ELSE "atualizar_carteira"])
        /\ UNCHANGED <<operacoes, seq_operacoes, resultados_mensais, operacoes_fechadas,
                       agregacao, filas, retorno, tokens, relogio, bearer, usuarios>>

\* recalcular_resultados, which reads and raises before it writes; the
\* exception ends the call.
PassoRecalcularResultados(c) ==
    /\ chamadas[c].pc = "recalcular_resultados"
    /\ agregacao' = recalcular_resultados(operacoes, carteira_atual, chamadas[c].usuario_id)
    /\ retorno' = Retorno(chamadas[c].usuario_id, "inserir_operacao_manual", <<>>,
                          agregacao'.excecao)
    /\ filas' = FilasNenhumas
    /\ SoMuda(c, [chamadas[c] EXCEPT !.pc = "livre"])
    /\ UNCHANGED <<operacoes, seq_operacoes, carteira_atual, resultados_mensais,
                   operacoes_fechadas, tokens, relogio, bearer, usuarios>>

(***************************************************************************)
(* Specifications                                                          *)
(***************************************************************************)
Init ==
    /\ operacoes = {}
    /\ seq_operacoes = 0
    /\ carteira_atual = {}
    /\ resultados_mensais = {}
    /\ operacoes_fechadas = <<>>
    /\ agregacao = AgregacaoNenhuma
    /\ filas = FilasNenhumas
    /\ retorno = Retorno(0, "", <<>>, "")
    /\ tokens = {}
    /\ relogio = [agora |-> 0, avancos |-> 0]
    /\ bearer = SemToken
    /\ chamadas = [c \in Sessoes |-> ChamadaLivre]
    /\ usuarios = UsuariosIniciais

\* Inputs of the whole-system specification: two users trading one ticker in
\* two months, and editing the portfolio row of a ticker they do not trade.
OperacoesSistema ==
    [date : {<<1, 1>>, <<2, 1>>}, ticker : {"PETR4"}, operation : Lados,
     quantity : {1}, price : {1000}, fees : {20}]

EdicoesSistema ==
    [ticker : {"VALE3"}, quantidade : {5}, preco_medio : {QInt(900)}]

LotesSistema ==
    {<<>>} \cup {<<a, b>> : a \in {o \in OperacoesSistema : o.operation = "buy"},
                            b \in {o \in OperacoesSistema : o.operation = "sell"}}

Next ==
    \E u \in Usuarios :
        \/ \E o \in OperacoesSistema : InserirOperacaoManual(u, o, MaxOps)
        \/ \E l \in {x \in LotesSistema : Len(x) <= MaxLote} : ProcessarOperacoes(u, l, MaxOps)
        \/ \E i \in 1..MaxOps : DeletarOperacaoService(u, i)
        \/ \E d \in EdicoesSistema : AtualizarItemCarteira(u, d)
        \/ CalcularOperacoesFechadas(u)
        \/ ListarOperacoesService(u)
        \/ CalcularCarteiraAtual(u)
        \/ CalcularResultadosMensais(u)
        \/ GerarDarfs(u)

Spec == Init /\ [][Next]_vars

\* Inputs of the Lot Matcher specification: one user, one ticker, two days;
\* a fee only on the transactions that can be split.
OperacoesFIFO ==
    {o \in [date : {<<1, 1>>, <<1, 2>>}, ticker : {"PETR4"}, operation : Lados,
            quantity : {1, 2}, price : {1000}, fees : {0, 6}] :
        o.fees = 0 \/ o.quantity = 2}

NextFIFO ==
    \E u \in {1} :
        \/ \E o \in OperacoesFIFO : InserirOperacaoManual(u, o, MaxOpsFIFO)
        \/ CalcularOperacoesFechadas(u)

SpecFIFO == Init /\ [][NextFIFO]_vars

\* Inputs of the Monthly Tax Aggregator specification: one user, one ticker,
\* two days of one month and a day of the next; the orders are a buy of 100
\* shares, a sell of them above and one below its price, and single-share
\* sells at and one centavo above the exemption limit.
OrdensMensal ==
    {[operation |-> "buy",  quantity |-> 100, price |-> 3000,    fees |-> 500],
     [operation |-> "sell", quantity |-> 100, price |-> 3200,    fees |-> 500],
     [operation |-> "sell", quantity |-> 100, price |-> 2800,    fees |-> 500],
     [operation |-> "sell", quantity |-> 1,   price |-> 2000000, fees |-> 0],
     [operation |-> "sell", quantity |-> 1,   price |-> 2000001, fees |-> 0]}

DatasMensal == {<<1, 1>>, <<1, 2>>, <<2, 1>>}

OperacoesMensal ==
    {[date |-> d, ticker |-> "PETR4", operation |-> o.operation, quantity |-> o.quantity,
      price |-> o.price, fees |-> o.fees] : d \in DatasMensal, o \in OrdensMensal}

LotesMensal ==
    {<<a, b>> : a \in {o \in OperacoesMensal : o.operation = "buy"},
                b \in {o \in OperacoesMensal : o.operation = "sell"}}

NextMensal ==
    \E u \in {1} :
        \/ \E o \in OperacoesMensal : InserirOperacaoManual(u, o, MaxOpsMensal)
        \/ \E l \in {x \in LotesMensal : Len(x) <= MaxLote} :
               ProcessarOperacoes(u, l, MaxOpsMensal)
        \/ CalcularResultadosMensais(u)
        \/ GerarDarfs(u)

SpecMensal == Init /\ [][NextMensal]_vars

\* Inputs of the authentication specification: two users who log in, log
\* out and present tokens while the clock advances by the validity of a
\* token, and who each upload a buy and a sell of one share on one day.
LoteAuth ==
    <<[date |-> <<1, 1>>, ticker |-> "PETR4", operation |-> "buy",
       quantity |-> 1, price |-> 1000, fees |-> 20],
      [date |-> <<1, 1>>, ticker |-> "PETR4", operation |-> "sell",
       quantity |-> 1, price |-> 1000, fees |-> 20]>>

TokensApresentados == {l.token : l \in tokens} \cup {TokenMalformado, TokenNuncaEmitido}

NextAuth ==
    \/ \E u \in Usuarios : GerarToken(u)
    \/ \E t \in TokensApresentados : VerificarToken(t)
    \/ \E t \in TokensApresentados : RevogarToken(t)
    \/ \E u \in Usuarios : RevogarTodosTokensUsuario(u)
    \/ PassarTempo(JWT_EXPIRATION)
    \/ \E u \in Usuarios : ProcessarOperacoes(u, LoteAuth, MaxOpsAuth)
    \/ \E u \in Usuarios : CalcularOperacoesFechadas(u)
    \/ LimparBancoDados

SpecAuth == Init /\ [][NextAuth]_vars

\* Inputs of the account specification: logins under either username with a
\* right or a wrong password, and updates of a user, one of them unknown, that
\* set any of username, password and the active flag.
Nomes == {"ana", "bia"}

Senhas == {1, 2}

DadosUsuario ==
    [username : {<<>>, <<"bia">>}, senha : {<<>>, <<2>>},
     ativo : {<<>>, <<TRUE>>, <<FALSE>>}]

NextConta ==
    \/ \E n \in Nomes, s \in Senhas : Login(n, s, MaxTokensConta)
    \/ \E t \in TokensApresentados : VerificarToken(t)
    \/ \E u \in Usuarios \cup {3}, d \in DadosUsuario : AtualizarUsuario(u, d)
    \/ PassarTempo(1)

SpecConta == Init /\ [][NextConta]_vars

\* Inputs of the step-by-step specifications: buys of one share of either
\* ticker at either of two prices, and a sell, on one day.
OperacoesPasso ==
    [date : {<<1, 1>>}, ticker : Tickers, operation : {"buy"}, quantity : {1},
     price : {1000, 2000}, fees : {0}]
    \cup [date : {<<1, 1>>}, ticker : {"PETR4"}, operation : {"sell"}, quantity : {1},
          price : {1000}, fees : {0}]

\* The steps of the calls when session c calls for user DonoDe[c].
PassosDasChamadas(DonoDe, limite) ==
    \E c \in Sessoes :
        \/ \E o \in OperacoesPasso : IniciarChamada(c, DonoDe[c], o, limite)
        \/ PassoInserirOperacao(c)
        \/ PassoObterOperacoes(c)
        \/ PassoAtualizarCarteira(c)
        \/ PassoRecalcularResultados(c)

\* Two users, each with one session: calls of different users interleave,
\* calls of one user follow one another.
NextUsuarios == PassosDasChamadas([c \in Sessoes |-> c], MaxOpsUsuarios)

SpecUsuarios == Init /\ [][NextUsuarios]_vars

\* One user with two sessions: the user's calls interleave.
NextSessoes == PassosDasChamadas([c \in Sessoes |-> 1], MaxOpsSessoes)

SpecSessoes == Init /\ [][NextSessoes]_vars

(***************************************************************************)
(* Properties of the Lot Matcher (checked under SpecFIFO)                  *)
(***************************************************************************)
\* The last call was a Lot Matcher run.
AposCasamento == retorno.funcao = "calcular_operacoes_fechadas"

\* The rows of the user the last call was made for.
OperacoesDoChamador == obter_operacoes_para_calculo_fechadas(operacoes, retorno.usuario_id)

\* Every fragment left in a queue by the last Lot Matcher run.
PendentesFinais ==
    UNION {Range(filas.por_ticker[t].compras_pendentes)
           \cup Range(filas.por_ticker[t].vendas_pendentes) : t \in Tickers}

\* Quantity of the returned closed positions that use transaction `id`, on
\* either side.
QuantidadeFechadaDe(id) ==
    SeqSum([i \in DOMAIN retorno.valor |->
               IF id \in {retorno.valor[i].id_operacao_abertura,
                          retorno.valor[i].id_operacao_fechamento}
               THEN retorno.valor[i].quantidade ELSE 0])

\* Quantity of transaction `id` left pending (a transaction has at most one
\* fragment in the queues).
QuantidadePendenteDe(id) ==
    IF \E p \in PendentesFinais : p.id = id
    THEN (CHOOSE p \in PendentesFinais : p.id = id).quantity
    ELSE 0

TotalFechado == SeqSum([i \in DOMAIN retorno.valor |-> retorno.valor[i].quantidade])

TotalPendente ==
    SeqSum([i \in DOMAIN OperacoesDoChamador |-> QuantidadePendenteDe(OperacoesDoChamador[i].id)])

TotalTransacionado ==
    SeqSum([i \in DOMAIN OperacoesDoChamador |-> OperacoesDoChamador[i].quantity])

\* C1: after calcular_operacoes_fechadas every share of every transaction of
\* the user is accounted for exactly once: the quantities of the closed
\* positions that use a transaction (as opening or closing side) plus its
\* remainder left pending equal its quantity, no fragment of another
\* transaction is pending, and 2 x (sum of closed quantities) + total pending
\* = total transacted quantity.
C1_ConservacaoDeQuantidade ==
    AposCasamento =>
        /\ \A o \in Range(OperacoesDoChamador) :
               QuantidadeFechadaDe(o.id) + QuantidadePendenteDe(o.id) = o.quantity
        /\ \A p \in PendentesFinais :
               /\ p.quantity > 0
               /\ \E o \in Range(OperacoesDoChamador) : o.id = p.id
               /\ Cardinality({q \in PendentesFinais : q.id = p.id}) = 1
        /\ 2 * TotalFechado + TotalPendente = TotalTransacionado

\* C1 witness: a run that split a transaction over two closed positions and
\* left an unmatched remainder pending.
C1_Witness ==
    /\ AposCasamento
    /\ Len(retorno.valor) >= 2
    /\ PendentesFinais # {}
    /\ \E o \in Range(OperacoesDoChamador) :
           /\ QuantidadePendenteDe(o.id) > 0
           /\ QuantidadeFechadaDe(o.id) > 0

\* Sum of the fees the returned closed positions carry.
TaxasAtribuidas == SeqQSum([i \in DOMAIN retorno.valor |-> retorno.valor[i].taxas_total])

\* Sum of the fees of the user's transactions.
TaxasOriginais ==
    SeqSum([i \in DOMAIN OperacoesDoChamador |-> OperacoesDoChamador[i].fees])

\* C2: fee conservation in the Lot Matcher: when every transaction of the
\* user is fully consumed (nothing is left pending), the fees assigned to the
\* closed positions sum exactly to the original fees of the transactions; no
\* fee is leaked or counted twice.
C2_ConservacaoDeTaxas ==
    (AposCasamento /\ PendentesFinais = {}) => TaxasAtribuidas = QInt(TaxasOriginais)

\* C2 witness: a fully matched run in which a transaction that carries a fee
\* was consumed by two closed positions.
C2_Witness ==
    /\ AposCasamento
    /\ PendentesFinais = {}
    /\ \E o \in Range(OperacoesDoChamador) :
           /\ o.fees > 0
           /\ Cardinality({i \in DOMAIN retorno.valor :
                              o.id \in {retorno.valor[i].id_operacao_abertura,
                                        retorno.valor[i].id_operacao_fechamento}}) = 2

(***************************************************************************)
(* Properties of the whole system (checked under Spec)                     *)
(***************************************************************************)
\* Everything stored for user b: transactions, portfolio entries, monthly
\* results and closed positions.
DadosDe(b) ==
    <<{o \in operacoes : o.usuario_id = b},
      {c \in carteira_atual : c.usuario_id = b},
      {r \in resultados_mensais : r.usuario_id = b},
      SelectSeq(operacoes_fechadas, LAMBDA f : f.usuario_id = b)>>

\* The ids of the transactions user b owns.
IdsDe(b) == {o.id : o \in {x \in operacoes : x.usuario_id = b}}

\* The list the last call returned holds only records of its caller.
ListaSoDoChamador ==
    LET u == retorno.usuario_id
        lista == retorno.valor
    IN  /\ retorno.funcao \in {"listar_operacoes_service", "calcular_carteira_atual",
                               "calcular_resultados_mensais"}
               => \A i \in DOMAIN lista : lista[i].usuario_id = u
        /\ retorno.funcao = "calcular_operacoes_fechadas"
               => \A i \in DOMAIN lista :
                      /\ lista[i].id_operacao_abertura \in IdsDe(u)
                      /\ lista[i].id_operacao_fechamento \in IdsDe(u)
        /\ retorno.funcao = "gerar_darfs"
               => \A i \in DOMAIN lista :
                      \E r \in resultados_mensais :
                          r.usuario_id = u /\ r.darf = <<lista[i]>>

\* C3: user scoping: a call made by one user (insert, upload, delete,
\* portfolio edit, recomputation, listing) never changes what is stored for
\* another user, and every list a call returns holds only records owned by
\* its caller.
C3_IsolamentoEntreUsuarios ==
    [][/\ \A b \in Usuarios : b # retorno'.usuario_id => DadosDe(b)' = DadosDe(b)
       /\ ListaSoDoChamador']_vars

\* C3 witness: both users own transactions and portfolio entries, and the
\* last call returned a non-empty list of transactions to one of them.
C3_Witness ==
    /\ \A b \in Usuarios : DadosDe(b)[1] # {} /\ DadosDe(b)[2] # {}
    /\ retorno.funcao = "listar_operacoes_service"
    /\ retorno.valor # <<>>

\* The last call inserted transactions and ran the Portfolio Rebuilder.
AposRecalculo == retorno.funcao \in {"inserir_operacao_manual", "processar_operacoes"}

\* C4: the stored portfolio after recalcular_carteira is a function of the
\* user's transaction set only: whatever the portfolio held before, the
\* user's entries are those the rebuild derives from an empty portfolio, so
\* no entry remains for a ticker without transactions.
C4_CarteiraFuncaoDasOperacoes ==
    AposRecalculo =>
        {c \in carteira_atual : c.usuario_id = retorno.usuario_id}
            = recalcular_carteira({}, operacoes, retorno.usuario_id)

\* C4 witness: a rebuild ran for a user whose portfolio held an entry of a
\* ticker the user has no transaction of.
C4_Witness ==
    /\ AposRecalculo
    /\ \E c \in carteira_atual :
           /\ c.usuario_id = retorno.usuario_id
           /\ c.quantidade # 0
           /\ \A o \in operacoes : o.usuario_id = c.usuario_id => o.ticker # c.ticker

(***************************************************************************)
(* Properties of the Monthly Tax Aggregator (checked under SpecMensal)     *)
(***************************************************************************)
\* The months in which user u has transactions.
MesesDe(u) == {MesDe(o.date) : o \in {x \in operacoes : x.usuario_id = u}}

\* The stored MonthlyResult rows of user u for month m.
LinhasDoMes(u, m) == {r \in resultados_mensais : r.usuario_id = u /\ r.mes = m}

\* The user's transactions of month m, in date order.
OperacoesDoMes(u, m) ==
    SelectSeq(obter_todas_operacoes(operacoes, u), LAMBDA o : MesDe(o.date) = m)

\* The month's figures before loss offset, summed over its days.
ApuracaoDoMes(u, m) ==
    LET ops  == OperacoesDoMes(u, m)
        dias == OrdenarDatas({ops[i].date : i \in DOMAIN ops})
        dia(d) == CalcularResultadoDia(SelectSeq(ops, LAMBDA o : o.date = d),
                                       obter_carteira_atual(carteira_atual, u))
    IN  [vendas_swing |-> SomaQ(dias, LAMBDA d : dia(d).swing.vendas),
         ganho_swing  |-> SomaQ(dias, LAMBDA d : dia(d).swing.ganho_liquido),
         ganho_day    |-> SomaQ(dias, LAMBDA d : dia(d).day.ganho_liquido)]

\* Gross value (quantity x price) of the month's day-trade sells.
VendasBrutasDayTrade(u, m) ==
    LET ops == OperacoesDoMes(u, m)
    IN  SeqSum([i \in DOMAIN ops |->
                   IF /\ ops[i].operation = "sell"
                      /\ EhDayTrade(SelectSeq(ops, LAMBDA o : o.date = ops[i].date),
                                    ops[i].ticker)
                   THEN ops[i].quantity * ops[i].price ELSE 0])

\* accumulated_loss at the end of a month that starts with `inicio` and has
\* net gain `ganho` before offset.
PrejuizoAoFim(inicio, ganho) ==
    QSub(QAdd(inicio, QMax(QZero, QSub(QZero, ganho))),
         QMin(inicio, QMax(QZero, ganho)))

\* The months of user u before month m.
MesesAntes(u, m) == {k \in MesesDe(u) : k < m}

\* C5: loss carry-forward: after a recomputation every month of the user has
\* a MonthlyResult whose accumulated loss, per stream, is the accumulated
\* loss of the preceding month's result (0 for the first month) plus
\* max(0, -net_gain) minus min(that loss, max(0, net_gain)).
C5_RecorrenciaDoPrejuizo ==
    AposRecalculo =>
        LET u == retorno.usuario_id
        IN  \A m \in MesesDe(u) :
                \E r \in LinhasDoMes(u, m) :
                    LET ap == ApuracaoDoMes(u, m)
                        segue(ini_swing, ini_day) ==
                            /\ r.prejuizo_acumulado_swing = PrejuizoAoFim(ini_swing, ap.ganho_swing)
                            /\ r.prejuizo_acumulado_day = PrejuizoAoFim(ini_day, ap.ganho_day)
                    IN  IF MesesAntes(u, m) = {}
                        THEN segue(QZero, QZero)
                        ELSE \E p \in LinhasDoMes(u, CHOOSE k \in MesesAntes(u, m) :
                                                        \A j \in MesesAntes(u, m) : j <= k) :
                                 segue(p.prejuizo_acumulado_swing, p.prejuizo_acumulado_day)

\* C5 witness: a recomputation ran for a user with transactions in two
\* months, the first of which ends in a swing loss.
C5_Witness ==
    /\ AposRecalculo
    /\ Cardinality(MesesDe(retorno.usuario_id)) = 2
    /\ \E m \in MesesDe(retorno.usuario_id) :
           /\ MesesAntes(retorno.usuario_id, m) = {}
           /\ \E i \in DOMAIN OperacoesDoMes(retorno.usuario_id, m) :
                  OperacoesDoMes(retorno.usuario_id, m)[i].operation = "sell"

\* User u's transactions are a buy and, on a later day of the same month m, a
\* sell of the same quantity that brings in less than the shares cost.
CompraEVendaComPerda(u, m) ==
    \E c, v \in operacoes :
        /\ {o \in operacoes : o.usuario_id = u} = {c, v}
        /\ c.operation = "buy" /\ v.operation = "sell"
        /\ c.ticker = v.ticker /\ c.quantity = v.quantity
        /\ MesDe(c.date) = m /\ MesDe(v.date) = m /\ DataMenor(c.date, v.date)
        /\ v.quantity * v.price - v.fees < c.quantity * c.price + c.fees

\* C6: when the swing sells of a month bring in less than the sold shares
\* cost, the sell closing the whole position included, the month's
\* MonthlyResult -- the stored one, or else the one the aggregation run
\* computed for that month -- has accumulated_loss_swing > 0.
C6_PrejuizoRegistrado ==
    AposRecalculo =>
        LET u == retorno.usuario_id
        IN  \A m \in MesesDe(u) :
                CompraEVendaComPerda(u, m) =>
                    \/ \E r \in LinhasDoMes(u, m) : QLt(QZero, r.prejuizo_acumulado_swing)
                    \/ \E i \in DOMAIN agregacao.iteracoes :
                           /\ agregacao.iteracoes[i].mes_str = m
                           /\ QLt(QZero, agregacao.iteracoes[i].resultado.prejuizo_acumulado_swing)

\* C6 witness: a recomputation ran over a buy followed by a losing sell of the
\* whole position.
C6_Witness ==
    /\ AposRecalculo
    /\ \E m \in MesesDe(retorno.usuario_id) : CompraEVendaComPerda(retorno.usuario_id, m)
    /\ agregacao.iteracoes # <<>>

\* C7: exemption boundary: after a recomputation every month of the user has
\* a MonthlyResult that carries the month's swing gross sales and is exempt
\* exactly when they are <= 20000.00.
C7_LimiteDeIsencao ==
    AposRecalculo =>
        LET u == retorno.usuario_id
        IN  \A m \in MesesDe(u) :
                \E r \in LinhasDoMes(u, m) :
                    /\ r.vendas_swing = ApuracaoDoMes(u, m).vendas_swing
                    /\ r.isento_swing <=> QLe(r.vendas_swing, QInt(LimiteIsencao))

\* C7 witness: a recomputation ran over a month whose swing gross sales are
\* exactly one centavo above the limit.
C7_Witness ==
    /\ AposRecalculo
    /\ \E m \in MesesDe(retorno.usuario_id) :
           ApuracaoDoMes(retorno.usuario_id, m).vendas_swing = QInt(LimiteIsencao + 1)

\* C8: day-trade tax: after a recomputation every month of the user has a
\* MonthlyResult with withheld tax = 1% of the gross value of the month's
\* day-trade sells, tax due = 20% of the day-trade net gain after offset (0
\* without gain) and tax payable = max(0, due - withheld).
C8_ImpostoDayTrade ==
    AposRecalculo =>
        LET u == retorno.usuario_id
        IN  \A m \in MesesDe(u) :
                \E r \in LinhasDoMes(u, m) :
                    /\ r.irrf_day = Q(VendasBrutasDayTrade(u, m), 100)
                    /\ r.ir_devido_day = QMax(QZero, QMul(r.ganho_liquido_day, Q(20, 100)))
                    /\ r.ir_pagar_day = QMax(QZero, QSub(r.ir_devido_day, r.irrf_day))

\* C8 witness: a recomputation ran over BUY 100 @30.00 fees 5.00 and
\* SELL 100 @32.00 fees 5.00 on one day.
C8_Witness ==
    /\ AposRecalculo
    /\ \E m \in MesesDe(retorno.usuario_id) :
           /\ VendasBrutasDayTrade(retorno.usuario_id, m) = 320000
           /\ ApuracaoDoMes(retorno.usuario_id, m).ganho_day = QInt(19000)

\* C9: in an aggregation run the MonthlyResult of month m carries a DARF
\* exactly when its tax_payable_day > 0, with code "6015", competencia m and
\* valor tax_payable_day; and gerar_darfs, for a user whose transactions are
\* one month's day trades with tax payable, lists that month's DARF.
C9_DarfDoMes ==
    /\ AposRecalculo =>
           \A i \in DOMAIN agregacao.iteracoes :
               LET m == agregacao.iteracoes[i].mes_str
                   r == agregacao.iteracoes[i].resultado
               IN  /\ r.darf # <<>> <=> QLt(QZero, r.ir_pagar_day)
                   /\ r.darf # <<>> =>
                          /\ r.darf[1].codigo = "6015"
                          /\ r.darf[1].competencia = m
                          /\ r.darf[1].valor = r.ir_pagar_day
    /\ retorno.funcao = "gerar_darfs" =>
           LET u == retorno.usuario_id
           IN  \A m \in MesesDe(u) :
                   LET devido == QMax(QZero, QMul(ApuracaoDoMes(u, m).ganho_day, Q(20, 100)))
                       pagar  == QSub(devido, Q(VendasBrutasDayTrade(u, m), 100))
                   IN  (MesesDe(u) = {m} /\ QLt(QZero, pagar)) =>
                           /\ Len(retorno.valor) = 1
                           /\ retorno.valor[1].codigo = "6015"
                           /\ retorno.valor[1].competencia = m
                           /\ retorno.valor[1].valor = pagar

\* C9 witness: an aggregation run computed a DARF for the first of two months
\* with transactions.
C9_Witness ==
    /\ AposRecalculo
    /\ Cardinality(MesesDe(retorno.usuario_id)) = 2
    /\ \E i \in DOMAIN agregacao.iteracoes : agregacao.iteracoes[i].resultado.darf # <<>>

\* C10: after a recomputation, and in the listing of the results, the user
\* has exactly one MonthlyResult per month with transactions, each under its
\* own month key, and none for any other month; the listing is in ascending
\* month order.
C10_UmResultadoPorMes ==
    LET u == retorno.usuario_id
    IN  /\ AposRecalculo =>
               /\ \A m \in MesesDe(u) : Cardinality(LinhasDoMes(u, m)) = 1
               /\ \A r \in resultados_mensais : r.usuario_id = u => r.mes \in MesesDe(u)
        /\ retorno.funcao = "calcular_resultados_mensais" =>
               /\ {retorno.valor[i].mes : i \in DOMAIN retorno.valor} = MesesDe(u)
               /\ \A i, j \in DOMAIN retorno.valor :
                      i < j => retorno.valor[i].mes < retorno.valor[j].mes

\* C10 witness: a recomputation ran for a user with transactions in two
\* months.
C10_Witness ==
    /\ AposRecalculo
    /\ Cardinality(MesesDe(retorno.usuario_id)) = 2
    /\ agregacao.linha = 541

(***************************************************************************)
(* Re-derivation after a mutation (checked under Spec)                     *)
(***************************************************************************)
\* The closed positions stored for user u.
FechadasArmazenadas(u) == SelectSeq(operacoes_fechadas, LAMBDA f : f.usuario_id = u)

\* C11: a call that inserts transactions re-derives, before it returns, the
\* portfolio and then the closed positions: on return the caller's stored
\* portfolio holds the entries the Portfolio Rebuilder derives and the stored
\* closed positions are those the Lot Matcher derives from the caller's
\* transactions.  (That the monthly results are stored as well is C10.)
C11_RederivacaoAposMutacao ==
    AposRecalculo =>
        LET u == retorno.usuario_id
        IN  /\ \A c \in recalcular_carteira({}, operacoes, u) : c \in carteira_atual
            /\ FechadasArmazenadas(u)
                   = LinhasOperacoesFechadas(OperacoesFechadasParaSalvar(operacoes, u), u)

\* C11 witness: an upload returned for a user whose transactions, a buy and a
\* sell, make a closed position.
C11_Witness ==
    /\ retorno.funcao = "processar_operacoes"
    /\ OperacoesFechadasParaSalvar(operacoes, retorno.usuario_id) # <<>>

(***************************************************************************)
(* Further properties of the Lot Matcher (checked under SpecFIFO)          *)
(***************************************************************************)
\* The transaction of the caller with the given id.
OperacaoDeId(id) == CHOOSE o \in Range(OperacoesDoChamador) : o.id = id

\* C12: every closed position the Lot Matcher returns has day_trade = TRUE
\* exactly when the trade date of its opening transaction equals the trade
\* date of its closing transaction, and carries those two dates.
C12_DayTradeSeMesmaData ==
    AposCasamento =>
        \A i \in DOMAIN retorno.valor :
            LET f == retorno.valor[i]
                a == OperacaoDeId(f.id_operacao_abertura)
                c == OperacaoDeId(f.id_operacao_fechamento)
            IN  /\ f.data_abertura = a.date
                /\ f.data_fechamento = c.date
                /\ f.day_trade <=> (a.date = c.date)

\* C12 witness: a run that returned a closed position opened and closed on
\* the same day and one closed on a later day than it was opened.
C12_Witness ==
    /\ AposCasamento
    /\ \E i, j \in DOMAIN retorno.valor :
           /\ retorno.valor[i].day_trade
           /\ ~retorno.valor[j].day_trade
           /\ retorno.valor[j].data_abertura # retorno.valor[j].data_fechamento

\* The fees a closed position of quantity q should carry for transaction o:
\* original_fees * matched_quantity / original_quantity.
TaxaProporcional(o, q) == Q(o.fees * q, o.quantity)

\* C13: a sell with no pending buys opens a short and a later buy covers it:
\* every closed position whose opening transaction is a sell is closed by a
\* buy that comes after it, carries the sell's value as valor_venda and the
\* buy's as valor_compra, and has resultado = sell price x quantity - buy
\* price x quantity - the fees of both transactions prorated on their
\* original quantities.
C13_VendaDescobertaCoberta ==
    AposCasamento =>
        \A i \in DOMAIN retorno.valor :
            LET f == retorno.valor[i]
                a == OperacaoDeId(f.id_operacao_abertura)
                c == OperacaoDeId(f.id_operacao_fechamento)
            IN  a.operation = "sell" =>
                    /\ c.operation = "buy"
                    /\ Antes(a, c)
                    /\ f.valor_venda = a.price * f.quantidade
                    /\ f.valor_compra = c.price * f.quantidade
                    /\ f.resultado =
                           QSub(QSub(QInt(f.valor_venda - f.valor_compra),
                                     TaxaProporcional(a, f.quantidade)),
                                TaxaProporcional(c, f.quantidade))

\* C13 witness: a short sell that carries a fee was covered by two buys.
C13_Witness ==
    /\ AposCasamento
    /\ \E o \in Range(OperacoesDoChamador) :
           /\ o.operation = "sell"
           /\ o.fees > 0
           /\ Cardinality({i \in DOMAIN retorno.valor :
                              retorno.valor[i].id_operacao_abertura = o.id}) = 2

\* The caller's transactions are buys followed by sells of, in all, fewer
\* shares than were bought.
ComprasEntaoVendaParcial ==
    LET ops == OperacoesDoChamador
    IN  /\ \E i \in DOMAIN ops : ops[i].operation = "buy"
        /\ \E i \in DOMAIN ops : ops[i].operation = "sell"
        /\ \A i, j \in DOMAIN ops :
               (ops[i].operation = "sell" /\ ops[j].operation = "buy") => j < i
        /\ SeqSum([i \in DOMAIN ops |-> IF ops[i].operation = "sell" THEN ops[i].quantity ELSE 0])
               < SeqSum([i \in DOMAIN ops |-> IF ops[i].operation = "buy" THEN ops[i].quantity ELSE 0])

\* C14: after buys of a ticker followed by sells of fewer shares than are
\* held, the stored portfolio entry has quantity = bought - sold and the
\* average price of the buys, (sum of quantity x price + fees) / (sum of
\* quantities): a sell that leaves shares does not change the average.
C14_VendaParcialMantemPrecoMedio ==
    (AposRecalculo /\ ComprasEntaoVendaParcial) =>
        LET ops == OperacoesDoChamador
            compradas == SeqSum([i \in DOMAIN ops |->
                             IF ops[i].operation = "buy" THEN ops[i].quantity ELSE 0])
            vendidas  == SeqSum([i \in DOMAIN ops |->
                             IF ops[i].operation = "sell" THEN ops[i].quantity ELSE 0])
            custo     == SeqSum([i \in DOMAIN ops |->
                             IF ops[i].operation = "buy"
                             THEN ops[i].quantity * ops[i].price + ops[i].fees ELSE 0])
        IN  \E c \in carteira_atual :
                /\ c.usuario_id = retorno.usuario_id
                /\ c.ticker = ops[1].ticker
                /\ c.quantidade = compradas - vendidas
                /\ c.preco_medio = Q(custo, compradas)

\* C14 witness: two buys, one of them with a fee, and then a sell that leaves
\* shares in the portfolio.
C14_Witness ==
    /\ AposRecalculo
    /\ ComprasEntaoVendaParcial
    /\ Len(OperacoesDoChamador) = 3
    /\ \E i \in DOMAIN OperacoesDoChamador : OperacoesDoChamador[i].fees > 0

\* The quantity of transaction `id` in the closed positions returned before
\* position i.
FechadoAntesDe(id, i) ==
    SeqSum([k \in 1..(i - 1) |->
               IF id \in {retorno.valor[k].id_operacao_abertura,
                          retorno.valor[k].id_operacao_fechamento}
               THEN retorno.valor[k].quantidade ELSE 0])

\* C19: FIFO order within a ticker: the closed positions are returned in
\* ascending (date, id) order of their closing transactions; each is opened
\* by a transaction of the opposite side that precedes its closing one; when a
\* position is made from a pending fragment, every earlier transaction of the
\* fragment's side is already fully consumed by the positions before it; and
\* a fragment left pending belongs to a transaction no earlier than the
\* opening transaction of any position (the oldest is consumed first).
C19_OrdemFIFO ==
    AposCasamento =>
        /\ \A i \in DOMAIN retorno.valor :
               LET f == retorno.valor[i]
                   a == OperacaoDeId(f.id_operacao_abertura)
                   c == OperacaoDeId(f.id_operacao_fechamento)
               IN  /\ a.operation # c.operation
                   /\ Antes(a, c)
                   /\ f.quantidade > 0
                   /\ \A b \in Range(OperacoesDoChamador) :
                          (b.ticker = a.ticker /\ b.operation = a.operation /\ Antes(b, a))
                              => FechadoAntesDe(b.id, i) = b.quantity
        /\ \A i, j \in DOMAIN retorno.valor :
               i < j => ~Antes(OperacaoDeId(retorno.valor[j].id_operacao_fechamento),
                               OperacaoDeId(retorno.valor[i].id_operacao_fechamento))
        /\ \A p \in PendentesFinais :
               \A i \in DOMAIN retorno.valor :
                   LET a == OperacaoDeId(retorno.valor[i].id_operacao_abertura)
                   IN  (a.ticker = p.ticker /\ a.operation = p.operation)
                           => ~Antes(OperacaoDeId(p.id), a)

\* C19 witness: a transaction larger than the oldest pending fragment was
\* split over two closed positions with different opening transactions.
C19_Witness ==
    /\ AposCasamento
    /\ \E i, j \in DOMAIN retorno.valor :
           /\ i < j
           /\ retorno.valor[i].id_operacao_fechamento = retorno.valor[j].id_operacao_fechamento
           /\ retorno.valor[i].id_operacao_abertura # retorno.valor[j].id_operacao_abertura

(***************************************************************************)
(* Deleting a transaction (checked under Spec)                             *)
(***************************************************************************)
\* C15: deleting a transaction whose id does not exist or belongs to another
\* user is a no-op that raises nothing and returns False: here for a caller
\* who owns no transaction, so that whatever id is given is such an id.
C15_ExclusaoInexistenteSemErro ==
    (/\ retorno.funcao = "deletar_operacao_service"
     /\ IdsDe(retorno.usuario_id) = {})
        => (retorno.excecao = "" /\ retorno.valor = FALSE)

\* C15 witness: a user without transactions asked to delete one while
\* another user owns transactions.
C15_Witness ==
    /\ retorno.funcao = "deletar_operacao_service"
    /\ IdsDe(retorno.usuario_id) = {}
    /\ \E b \in Usuarios : IdsDe(b) # {}

(***************************************************************************)
(* Day-Trade Classifier (checked under SpecDia)                            *)
(***************************************************************************)
\* Inputs of the classifier specification: one user, two tickers, two days of
\* one month.
OperacoesDia ==
    [date : {<<1, 1>>, <<1, 2>>}, ticker : Tickers, operation : Lados,
     quantity : {1}, price : {1000}, fees : {20}]

NextDia ==
    \E u \in {1} :
        \E o \in OperacoesDia : InserirOperacaoManual(u, o, MaxOpsDia)

SpecDia == Init /\ [][NextDia]_vars

\* Transaction o of user u is of a ticker bought and sold by u on o's day.
CompradoEVendidoNoDia(u, o) ==
    /\ \E b \in operacoes : /\ b.usuario_id = u /\ b.date = o.date /\ b.ticker = o.ticker
                            /\ b.operation = "buy" /\ b.quantity > 0
    /\ \E v \in operacoes : /\ v.usuario_id = u /\ v.date = o.date /\ v.ticker = o.ticker
                            /\ v.operation = "sell" /\ v.quantity > 0

\* The sum of F over the transactions of a sequence that satisfy P.
SomaSe(ops, P(_), F(_)) ==
    SeqQSum([i \in DOMAIN ops |-> IF P(ops[i]) THEN F(ops[i]) ELSE QZero])

\* C20: in the month an aggregation run computes, a ticker is a day trade on
\* a day exactly when the user bought and sold it that day; then its buys go
\* as value + fees into the day-trade cost and its sells as value - fees into
\* the day-trade sales (and 1% of their value into the withheld tax) and
\* nothing of it into the swing figures; otherwise its sells go into the swing
\* sales (their cost at the stored average price) and its buys nowhere.
C20_ClassificacaoDayTrade ==
    (AposRecalculo /\ agregacao.iteracoes # <<>>) =>
        LET u   == retorno.usuario_id
            r   == agregacao.iteracoes[1].resultado
            ops == OperacoesDoMes(u, agregacao.iteracoes[1].mes_str)
            dt(o)     == CompradoEVendidoNoDia(u, o)
            compra(o) == o.operation = "buy"
            valor(o)  == o.quantity * o.price
            vendas_day == SomaSe(ops, LAMBDA o : dt(o) /\ ~compra(o),
                                 LAMBDA o : QInt(valor(o) - o.fees))
            custo_day  == SomaSe(ops, LAMBDA o : dt(o) /\ compra(o),
                                 LAMBDA o : QInt(valor(o) + o.fees))
        IN  /\ r.vendas_swing = SomaSe(ops, LAMBDA o : ~dt(o) /\ ~compra(o),
                                       LAMBDA o : QInt(valor(o) - o.fees))
            /\ r.custo_swing = SomaSe(ops, LAMBDA o : ~dt(o) /\ ~compra(o),
                                      LAMBDA o : CustoSwing(o, obter_carteira_atual(carteira_atual, u)))
            /\ QSub(r.ganho_liquido_day, r.prejuizo_acumulado_day) = QSub(vendas_day, custo_day)
            /\ r.irrf_day = SomaSe(ops, LAMBDA o : dt(o) /\ ~compra(o),
                                   LAMBDA o : Q(valor(o), 100))

\* C20 witness: a run over a ticker bought and sold on one day and another
\* ticker only sold that day.
C20_Witness ==
    /\ AposRecalculo
    /\ agregacao.iteracoes # <<>>
    /\ \E a, b \in operacoes :
           /\ a.date = b.date /\ a.ticker # b.ticker
           /\ a.operation = "sell" /\ b.operation = "sell"
           /\ CompradoEVendidoNoDia(retorno.usuario_id, a)
           /\ ~CompradoEVendidoNoDia(retorno.usuario_id, b)

(***************************************************************************)
(* Tokens and the admin reset (checked under SpecAuth)                     *)
(***************************************************************************)
\* The step is a call of verificar_token: every call sets `retorno`, and the
\* only step that leaves it alone advances the clock.
PassoVerificarToken == relogio' = relogio /\ retorno'.funcao = "verificar_token"

Armazenado(t) == \E l \in tokens : l.token = t

Revogado(t) == \E l \in tokens : l.token = t /\ l.revogado

Expirado(t) == t.texto = "jwt" /\ t.iat + JWT_EXPIRATION <= relogio.agora

\* C17: the answer to a presented token tells its condition: a string that is
\* no token of the system gets TOKEN_INVALID, a well-formed token that is not
\* stored TOKEN_NOT_FOUND, a revoked one TOKEN_REVOKED, and TOKEN_EXPIRED is
\* given only to a stored, unrevoked token whose validity has passed.
C17_QuatroResultadosDistintos ==
    retorno.funcao = "verificar_token" =>
        LET codigo == CodigoDeErro(retorno.excecao)
        IN  /\ bearer.texto # "jwt" <=> codigo = "TOKEN_INVALID"
            /\ (bearer.texto = "jwt" /\ ~Armazenado(bearer)) <=> codigo = "TOKEN_NOT_FOUND"
            /\ Revogado(bearer) <=> codigo = "TOKEN_REVOKED"
            /\ codigo = "TOKEN_EXPIRED"
                   => Armazenado(bearer) /\ ~Revogado(bearer) /\ Expirado(bearer)

\* C17 witness: the string "invalidtoken" was presented.
C17_Witness ==
    /\ retorno.funcao = "verificar_token"
    /\ bearer = TokenMalformado
    /\ tokens # {}

\* The step is a call of limpar_banco_dados.
PassoLimparBancoDados == relogio' = relogio /\ retorno'.funcao = "limpar_banco_dados"

OperacoesDoTicker(u, t) ==
    SelectSeq(obter_todas_operacoes(operacoes, u), LAMBDA o : o.ticker = t)

\* carteira_temp[t] after the first k iterations on ticker t.
EntradaApos(u, t, k) ==
    DobrarCarteira(EntradaInicial, SubSeq(OperacoesDoTicker(u, t), 1, k))

\* C21: after every iteration of the fold, an entry whose quantity is not
\* positive has custo_total = 0 and preco_medio = 0, and an entry with a
\* positive quantity has preco_medio = custo_total / quantidade; the quotient
\* is always taken with a positive divisor, so it is a well-formed number.
C21_EntradaConsistenteACadaPasso ==
    \A u \in Usuarios, t \in Tickers :
        \A k \in 0..Len(OperacoesDoTicker(u, t)) :
            LET e == EntradaApos(u, t, k)
            IN  /\ e.preco_medio[2] > 0
                /\ e.quantidade <= 0 => (e.custo_total = QZero /\ e.preco_medio = QZero)
                /\ e.quantidade > 0
                       => QMul(e.preco_medio, QInt(e.quantidade)) = e.custo_total

\* C21 witness: the fold went through a positive quantity, then through a
\* negative one (an open short), and ended on a positive quantity again.
C21_Witness ==
    \E u \in Usuarios, t \in Tickers :
        /\ Len(OperacoesDoTicker(u, t)) = 3
        /\ EntradaApos(u, t, 1).quantidade > 0
        /\ EntradaApos(u, t, 2).quantidade < 0
        /\ EntradaApos(u, t, 3).quantidade > 0
        /\ retorno.funcao = "inserir_operacao_manual"

(***************************************************************************)
(* Stored monthly results against the current history (checked under Spec) *)
(***************************************************************************)
\* The last call inserted or deleted transactions of its caller and was to
\* end with recalcular_resultados.
AposMutacao ==
    retorno.funcao \in {"inserir_operacao_manual", "processar_operacoes",
                        "deletar_operacao_service"}

\* C22: after an insert or a delete, which ends with recalcular_resultados,
\* the call has returned without an exception and the caller's stored
\* MonthlyResults are those of the current history: one row for each month
\* that has transactions, holding the month's swing sales and net gains as
\* the aggregation computes them and a DARF only with ir_pagar_day > 0, and
\* no row for a month without transactions.
C22_ResultadosDaHistoriaAtual ==
    AposMutacao =>
        LET u == retorno.usuario_id
        IN  /\ retorno.excecao = ""
            /\ {r.mes : r \in {x \in resultados_mensais : x.usuario_id = u}} = MesesDe(u)
            /\ \A m \in MesesDe(u) :
                   /\ Cardinality(LinhasDoMes(u, m)) = 1
                   /\ \A r \in LinhasDoMes(u, m) :
                          /\ r.vendas_swing = ApuracaoDoMes(u, m).vendas_swing
                          /\ r.darf # <<>> => QLt(QZero, r.ir_pagar_day)

\* C22 witness: a user with transactions in two months asked to delete one
\* of them.
C22_Witness ==
    /\ retorno.funcao = "deletar_operacao_service"
    /\ Cardinality(MesesDe(retorno.usuario_id)) = 2
    /\ \E i \in IdsDe(retorno.usuario_id) : i <= MaxOps

(***************************************************************************)
(* Interleaved calls (checked under SpecUsuarios and SpecSessoes)          *)
(***************************************************************************)
\* The tables after the operations `feitas` of user u have been submitted
\* one call after the other with no other call running: each call is
\* inserir_operacao_manual as a whole.
RECURSIVE ExecutarSozinho(_, _, _)
ExecutarSozinho(estado, feitas, u) ==
    IF feitas = <<>> THEN estado
    ELSE LET ops == estado.operacoes
                    \cup {inserir_operacao(Head(feitas), estado.seq + 1, u)}
         IN  ExecutarSozinho([operacoes  |-> ops,
                              seq        |-> estado.seq + 1,
                              carteira   |-> recalcular_carteira(estado.carteira, ops, u),
                              resultados |-> estado.resultados],
                             Tail(feitas), u)

BancoVazio == [operacoes |-> {}, seq |-> 0, carteira |-> {}, resultados |-> {}]

\* The transactions of user u in the order of their ids, without the ids,
\* which are drawn from a counter all users share.
TransacoesSemId(tabela, u) ==
    LET linhas == obter_operacoes_por_id(tabela, u)
    IN  [i \in DOMAIN linhas |->
            [date |-> linhas[i].date, ticker |-> linhas[i].ticker,
             operation |-> linhas[i].operation, quantity |-> linhas[i].quantity,
             price |-> linhas[i].price, fees |-> linhas[i].fees]]

\* C23: when a user has no call running, whatever steps of another user's
\* calls came in between, the user's transactions (in order, up to their
\* ids), portfolio rows and MonthlyResult rows are those the user's calls
\* leave when they run alone on an empty database.
C23_UsuariosNaoInterferem ==
    \A c \in Sessoes :
        (chamadas[c].pc = "livre" /\ chamadas[c].feitas # <<>>) =>
            LET u      == chamadas[c].usuario_id
                sozinho == ExecutarSozinho(BancoVazio, chamadas[c].feitas, u)
            IN  /\ TransacoesSemId(operacoes, u) = TransacoesSemId(sozinho.operacoes, u)
                /\ {x \in carteira_atual : x.usuario_id = u} = sozinho.carteira
                /\ {r \in resultados_mensais : r.usuario_id = u} = sozinho.resultados

\* C23 witness: a user's two calls have ended, the second having run wholly
\* within a call of the other user on the same ticker, which inserted its
\* row before and is still writing the portfolio after.
C23_Witness ==
    \E c, d \in Sessoes :
        /\ chamadas[c].pc = "livre" /\ Len(chamadas[c].feitas) = 2
        /\ chamadas[d].pc = "atualizar_carteira"
        /\ \E x, y \in operacoes :
               /\ x.usuario_id = chamadas[c].usuario_id
               /\ y.usuario_id = chamadas[d].usuario_id
               /\ x.usuario_id # y.usuario_id
               /\ x.ticker = y.ticker
               /\ y.id < x.id

\* The step is an atualizar_carteira of the call of session c.
PassoDeEscrita(c) ==
    /\ chamadas[c].pc = "atualizar_carteira"
    /\ chamadas'[c].pendentes = Tail(chamadas[c].pendentes)
    /\ \A d \in Sessoes \ {c} : chamadas'[d] = chamadas[d]

\* The stored row of user u for ticker t, as a set.
LinhaDaCarteira(tabela, u, t) == {x \in tabela : x.usuario_id = u /\ x.ticker = t}

\* C24: no version is checked when a call writes the portfolio: each
\* atualizar_carteira replaces the stored row of its ticker by the entry the
\* call derived from the transactions it read at its start, whatever another
\* call of the same user has inserted or written since.  (The witness is the
\* race: both calls ended and the stored portfolio is not the recomputation
\* over the final transactions.)
C24_EscritaSemVerificacao ==
    [][\A c \in Sessoes :
          PassoDeEscrita(c) =>
              LET u == chamadas[c].usuario_id
                  t == Head(chamadas[c].pendentes)
                  e == CarteiraTemp(chamadas[c].operacoes, t)
              IN  /\ \E x \in LinhaDaCarteira(carteira_atual', u, t) :
                         /\ x.quantidade = e.quantidade
                         /\ x.preco_medio = e.preco_medio
                  /\ Cardinality(LinhaDaCarteira(carteira_atual', u, t)) = 1
                  /\ UNCHANGED <<operacoes, resultados_mensais>>]_vars

\* C24 witness: two calls of one user have ended and the user's stored
\* portfolio differs from the recomputation over the user's transactions.
C24_Witness ==
    /\ \A c \in Sessoes : chamadas[c].pc = "livre" /\ chamadas[c].usuario_id = 1
    /\ {x \in carteira_atual : x.usuario_id = 1} # recalcular_carteira({}, operacoes, 1)

(***************************************************************************)
(* Accounts (checked under SpecConta)                                      *)
(***************************************************************************)
\* The tokens of user u in a table tokens.
TokensDe(tabela, u) == {l \in tabela : l.usuario_id = u}

\* C25: every token of an inactive user is revoked, and in every step: when
\* atualizar_usuario changes a user's password or leaves the user inactive,
\* verificar_token rejects each token the user had as revoked and the rows
\* of the other users' tokens are as before; and a token is only ever issued
\* to a user who is active, verificar_credenciais rejecting the login of an
\* inactive one.
C25_TokensAposAlteracao ==
    [][/\ \A u \in Usuarios :
              /\ ~usuarios'[u].ativo => \A l \in TokensDe(tokens', u) : l.revogado
              /\ (/\ retorno'.funcao = "atualizar_usuario"
                  /\ retorno'.usuario_id = u
                  /\ relogio' = relogio
                  /\ usuarios'[u].senha # usuarios[u].senha \/ ~usuarios'[u].ativo)
                     => /\ \A l \in TokensDe(tokens, u) :
                               verificar_token(tokens', l.token, relogio'.agora).excecao
                                   = "TokenRevokedError"
                        /\ \A v \in Usuarios \ {u} : TokensDe(tokens', v) = TokensDe(tokens, v)
       /\ \A l \in tokens' :
              (\A m \in tokens : m.id # l.id)
                  => /\ usuarios[l.usuario_id].ativo
                     /\ retorno'.funcao = "login"]_vars

\* C25 witness: a user with a token was set inactive while the other user
\* holds a valid token; a login under the inactive user's username with the
\* right password was then refused.
C25_Witness ==
    /\ retorno.funcao = "login"
    /\ retorno.excecao = "HTTP 401"
    /\ \E u \in Usuarios :
           /\ ~usuarios[u].ativo
           /\ TokensDe(tokens, u) # {}
           /\ \E l \in tokens : l.usuario_id # u /\ ~l.revogado

(***************************************************************************)
(* The queues of the Lot Matcher, step by step (checked under SpecFIFO)    *)
(***************************************************************************)
\* The rows of user u on ticker t in the order the Lot Matcher takes them.
OperacoesDoCasamento(u, t) ==
    SelectSeq(obter_operacoes_para_calculo_fechadas(operacoes, u), LAMBDA o : o.ticker = t)

\* The matcher state after the first k transactions of ticker t.
CasamentoApos(u, t, k) ==
    ProcessarOpsTicker(
        [fechadas |-> <<>>, compras_pendentes |-> <<>>, vendas_pendentes |-> <<>>],
        SubSeq(OperacoesDoCasamento(u, t), 1, k))

\* The quantity of the transactions of one side among the first k.
QuantidadeDoLado(u, t, k, lado) ==
    LET ops == SubSeq(OperacoesDoCasamento(u, t), 1, k)
    IN  SeqSum([i \in DOMAIN ops |-> IF ops[i].operation = lado THEN ops[i].quantity ELSE 0])

QuantidadeNaFila(fila) == SeqSum([i \in DOMAIN fila |-> fila[i].quantity])

\* C26: after each transaction of the Lot Matcher's pass over a ticker, the
\* two pending queues are not both non-empty, every queued fragment and every
\* match has a quantity > 0, and the pending buy quantity minus the pending
\* sell quantity is the quantity bought minus the quantity sold so far, so
\* also at the end of the pass.
C26_FilasDoCasamento ==
    \A u \in Usuarios, t \in Tickers :
        \A k \in 0..Len(OperacoesDoCasamento(u, t)) :
            LET st == CasamentoApos(u, t, k)
            IN  /\ st.compras_pendentes = <<>> \/ st.vendas_pendentes = <<>>
                /\ \A i \in DOMAIN st.compras_pendentes : st.compras_pendentes[i].quantity > 0
                /\ \A i \in DOMAIN st.vendas_pendentes : st.vendas_pendentes[i].quantity > 0
                /\ \A i \in DOMAIN st.fechadas : st.fechadas[i].quantidade > 0
                /\ QuantidadeNaFila(st.compras_pendentes) - QuantidadeNaFila(st.vendas_pendentes)
                       = QuantidadeDoLado(u, t, k, "buy") - QuantidadeDoLado(u, t, k, "sell")

\* C26 witness: a pass in which a sell emptied the buy queue and queued its
\* own remainder, which a later buy then matched exactly.
C26_Witness ==
    \E u \in Usuarios, t \in Tickers :
        /\ Len(OperacoesDoCasamento(u, t)) = 3
        /\ CasamentoApos(u, t, 1).compras_pendentes # <<>>
        /\ CasamentoApos(u, t, 2).vendas_pendentes # <<>>
        /\ CasamentoApos(u, t, 3).vendas_pendentes = <<>>
        /\ CasamentoApos(u, t, 3).compras_pendentes = <<>>
        /\ retorno.funcao = "calcular_operacoes_fechadas"

(***************************************************************************)
(* Expired tokens (checked under SpecAuth)                                 *)
(***************************************************************************)
\* C27: the verification that rejects a stored token as expired leaves its
\* row revoked, so that the next verification of the token reports it as
\* revoked.
C27_ExpiradoFicaRevogado ==
    (retorno.funcao = "verificar_token" /\ retorno.excecao = "TokenExpiredError")
        => Revogado(bearer)

\* C27 witness: a stored token was presented after its validity had passed
\* and was rejected as expired.
C27_Witness ==
    /\ retorno.funcao = "verificar_token"
    /\ retorno.excecao = "TokenExpiredError"
    /\ Armazenado(bearer)
    /\ Expirado(bearer)

(***************************************************************************)
(* Bounds of the average price (checked under SpecFIFO)                    *)
(***************************************************************************)
\* (quantity x price + fees) / quantity of one BUY row.
CustoPorAcao(op) == Q(op.quantity * op.price + op.fees, op.quantity)

\* The BUY rows of user u on ticker t.
ComprasDoTicker(u, t) ==
    SelectSeq(OperacoesDoTicker(u, t), LAMBDA o : o.operation = "buy")

\* C28: after the fold, for every ticker held with a positive quantity the
\* average price lies between the lowest and the highest per-share
\* acquisition cost among the ticker's BUY rows, also after an open short.
C28_PrecoMedioEntreCustos ==
    \A u \in Usuarios, t \in Tickers :
        LET e       == CarteiraTemp(obter_todas_operacoes(operacoes, u), t)
            compras == ComprasDoTicker(u, t)
        IN  e.quantidade > 0 =>
                /\ \E i \in DOMAIN compras : QLe(CustoPorAcao(compras[i]), e.preco_medio)
                /\ \E i \in DOMAIN compras : QLe(e.preco_medio, CustoPorAcao(compras[i]))

\* The fold of user u on ticker t never passed through a negative quantity.
SemDescoberto(u, t) ==
    \A k \in 0..Len(OperacoesDoTicker(u, t)) : EntradaApos(u, t, k).quantidade >= 0

\* C28 witness: a SELL exceeded the holding, later BUYs brought the quantity
\* above zero, and the rebuilt entry is the one stored in carteira_atual.
C28_Witness ==
    \E u \in Usuarios, t \in Tickers :
        /\ ~SemDescoberto(u, t)
        /\ \E c \in carteira_atual :
               /\ c.usuario_id = u /\ c.ticker = t /\ c.quantidade > 0
               /\ c.preco_medio = CarteiraTemp(obter_todas_operacoes(operacoes, u), t).preco_medio

(***************************************************************************)
(* The aggregator's day-trade gain against the Lot Matcher (checked under  *)
(* SpecFIFO)                                                               *)
(***************************************************************************)
\* The sum of resultado over the closed positions of a run of the Lot
\* Matcher that are day trades closed in month m.
ResultadoDayTradeDoCasamento(fechadas, m) ==
    SeqQSum([i \in DOMAIN fechadas |->
                IF fechadas[i].day_trade /\ MesDe(fechadas[i].data_fechamento) = m
                THEN fechadas[i].resultado ELSE QZero])

\* C29: for every month of the user, the day-trade net gain the aggregator
\* computes before loss offset equals the sum of resultado of the Lot
\* Matcher's day-trade closed positions closed in that month.
C29_GanhoDayIgualAoCasamento ==
    AposCasamento =>
        \A m \in MesesDe(retorno.usuario_id) :
            ApuracaoDoMes(retorno.usuario_id, m).ganho_day
                = ResultadoDayTradeDoCasamento(retorno.valor, m)

\* C29 witness: the Lot Matcher ran over a day on which the user bought two
\* shares of a ticker and sold one, and closed a day trade.
C29_Witness ==
    /\ AposCasamento
    /\ \E i \in DOMAIN retorno.valor : retorno.valor[i].day_trade
    /\ \E b, v \in operacoes :
           /\ b.usuario_id = retorno.usuario_id /\ v.usuario_id = retorno.usuario_id
           /\ b.date = v.date /\ b.ticker = v.ticker
           /\ b.operation = "buy" /\ v.operation = "sell"
           /\ b.quantity = 2 /\ v.quantity = 1
           /\ Cardinality(operacoes) = 2

(***************************************************************************)
(* A month against later transactions (checked under SpecMensal)           *)
(***************************************************************************)
\* The figures of a month that the claim is about, out of the dict the
\* aggregator builds for salvar_resultado_mensal.
FigurasDoMes(it) ==
    [vendas_swing             |-> it.resultado.vendas_swing,
     custo_swing              |-> it.resultado.custo_swing,
     ganho_liquido_swing      |-> it.resultado.ganho_liquido_swing,
     isento_swing             |-> it.resultado.isento_swing,
     ir_devido_swing          |-> it.ir_devido_swing,
     ir_devido_day            |-> it.resultado.ir_devido_day,
     ir_pagar_day             |-> it.resultado.ir_pagar_day,
     prejuizo_acumulado_swing |-> it.resultado.prejuizo_acumulado_swing,
     prejuizo_acumulado_day   |-> it.resultado.prejuizo_acumulado_day]

\* The step inserts transactions of the user of the last run, all of them
\* dated after month m, and runs the aggregator again.
InsereDepoisDoMes(m) ==
    /\ operacoes' # operacoes
    /\ \A o \in operacoes' \ operacoes :
           o.usuario_id = agregacao.usuario_id /\ MesDe(o.date) > m
    /\ agregacao'.usuario_id = agregacao.usuario_id
    /\ agregacao'.iteracoes # <<>>

\* C30: the figures of month m depend only on the transactions dated in m or
\* earlier: inserting transactions of a later month and recomputing leaves
\* the month's swing sales, cost, net gain, exemption flag, taxes and
\* accumulated losses as they were.
C30_MesIndependeDoFuturo ==
    [][(agregacao.iteracoes # <<>> /\ InsereDepoisDoMes(agregacao.iteracoes[1].mes_str))
          => /\ agregacao'.iteracoes[1].mes_str = agregacao.iteracoes[1].mes_str
             /\ FigurasDoMes(agregacao'.iteracoes[1]) = FigurasDoMes(agregacao.iteracoes[1])]_vars

\* C30 witness: the aggregator ran after the insert of a transaction of
\* month 2, the user's newest row, over a month 1 that holds a swing sell.
C30_Witness ==
    /\ AposRecalculo
    /\ agregacao.iteracoes # <<>>
    /\ agregacao.iteracoes[1].mes_str = 1
    /\ \E n \in operacoes :
           /\ n.usuario_id = agregacao.usuario_id /\ MesDe(n.date) = 2
           /\ \A o \in operacoes : o.id <= n.id
    /\ \E v \in operacoes :
           /\ v.usuario_id = agregacao.usuario_id /\ MesDe(v.date) = 1
           /\ v.operation = "sell"
           /\ ~CompradoEVendidoNoDia(agregacao.usuario_id, v)

====
